---- MODULE Spec2Model ----
(***************************************************************************)
(* ContrastMate: the scanning-and-classification engine (scanner.ts,       *)
(* contrast.ts) and the orchestration around it (main.ts).                 *)
(*                                                                         *)
(* Units.  Colour channels and opacities are thousandths (1000 = 1.0),     *)
(* linear-light values and luminances are ten-thousandths, contrast ratios *)
(* are hundredths rounded down (450 = 4.50:1; a comparison ratio >= t with *)
(* t a whole number of hundredths is exact under rounding down), font      *)
(* sizes are hundredths of a pixel, times are milliseconds.                *)
(***************************************************************************)
EXTENDS Integers, Sequences, FiniteSets, TLC

(***************************************************************************)
(* Bounds of the model                                                     *)
(***************************************************************************)
\* how many features of the baseline document one scanned document changes
MaxDev == 2
\* how many nodes a selection holds at most
MaxSel == 2
\* Date.now() when the plugin opens; far beyond progressInterval, as any
\* wall-clock epoch time is
Epoch == 1000000
MaxRetries == 1
MaxFocusErrors == 2

(***************************************************************************)
(* Small helpers                                                           *)
(***************************************************************************)
Max(a, b) == IF a >= b THEN a ELSE b
Min(a, b) == IF a <= b THEN a ELSE b

\* figma.mixed, and an absent optional number (undefined)
Mixed == [mixed |-> TRUE]
Undefined == 0 - 1

\* a ?? b for optional numbers
OrElse(a, b) == IF a = Undefined THEN b ELSE a

\* Array.prototype.filter(...).length
RECURSIVE CountIf(_, _)
CountIf(seq, issues) ==
    IF seq = <<>> THEN 0
    ELSE (IF Head(seq).issueType \in issues THEN 1 ELSE 0) + CountIf(Tail(seq), issues)

(***************************************************************************)
(* contrast.ts -- colour math                                              *)
(***************************************************************************)
AA_NORMAL == 450
AA_LARGE == 300
AAA_NORMAL == 700
AAA_LARGE == 450
BOLD_PX == 1867
REGULAR_PX == 2400

clampColor(value) == Max(0, Min(1000, value))

\* ((v + 0.055) / 1.055) ^ 2.4 at v = 0.25, 0.5, 0.75, 1.0, in ten-thousandths,
\* and linear in between: the colours of the model sit on these knots
GammaKnots == <<0, 509, 2140, 5225, 10000>>

GammaCurve(v) ==
    LET k == v \div 250
        lo == GammaKnots[k + 1]
        hi == GammaKnots[Min(k + 1, 4) + 1]
    IN  lo + ((hi - lo) * (v % 250)) \div 250

sRGBToLinear(value) ==
    LET v == clampColor(value)
    IN  IF v * 100 <= 4045 THEN (v * 10000) \div 12920 ELSE GammaCurve(v)

calculateRelativeLuminance(color) ==
    (2126 * sRGBToLinear(color.r) + 7152 * sRGBToLinear(color.g)
        + 722 * sRGBToLinear(color.b)) \div 10000

\* a slip: the foreground taken as the lighter colour
calculateContrastRatio_Ordered(foreground, background) ==
    ((calculateRelativeLuminance(foreground) + 500) * 100)
        \div (calculateRelativeLuminance(background) + 500)

calculateContrastRatio(foreground, background) ==
    LET lum1 == calculateRelativeLuminance(foreground)
        lum2 == calculateRelativeLuminance(background)
        lighter == Max(lum1, lum2)
        darker == Min(lum1, lum2)
    IN  ((lighter + 500) * 100) \div (darker + 500)

blendColors(foreground, background) ==
    LET a == foreground.a
    IN  [r |-> (foreground.r * a + background.r * (1000 - a)) \div 1000,
         g |-> (foreground.g * a + background.g * (1000 - a)) \div 1000,
         b |-> (foreground.b * a + background.b * (1000 - a)) \div 1000]

calculateContrastRatioWithAlpha(foreground, background) ==
    IF foreground.a >= 999
    THEN calculateContrastRatio(foreground, background)
    ELSE calculateContrastRatio(blendColors(foreground, background), background)

(***************************************************************************)
(* contrast.ts -- WCAG classifier                                          *)
(***************************************************************************)
\* a slip: semibold counted as bold
isLargeText_SemiBold(fontSize, fontWeight) ==
    IF fontWeight >= 600 THEN fontSize >= BOLD_PX ELSE fontSize >= REGULAR_PX

isLargeText(fontSize, fontWeight) ==
    IF fontWeight >= 700 THEN fontSize >= BOLD_PX ELSE fontSize >= REGULAR_PX

\* a slip: the thresholds themselves excluded
getWCAGLevel_Strict(contrastRatio, isLarge) ==
    IF isLarge
    THEN IF contrastRatio > AAA_LARGE THEN "AAA"
         ELSE IF contrastRatio > AA_LARGE THEN "AA-Large"
         ELSE "FAIL"
    ELSE IF contrastRatio > AAA_NORMAL THEN "AAA"
         ELSE IF contrastRatio > AA_NORMAL THEN "AA"
         ELSE "FAIL"

getWCAGLevel(contrastRatio, isLarge) ==
    IF isLarge
    THEN IF contrastRatio >= AAA_LARGE THEN "AAA"
         ELSE IF contrastRatio >= AA_LARGE THEN "AA-Large"
         ELSE "FAIL"
    ELSE IF contrastRatio >= AAA_NORMAL THEN "AAA"
         ELSE IF contrastRatio >= AA_NORMAL THEN "AA"
         ELSE "FAIL"

\* a slip: the threshold of normal text applied to large text as well
passesWCAG_AA_NormalOnly(contrastRatio, isLarge) == contrastRatio >= AA_NORMAL

passesWCAG_AA(contrastRatio, isLarge) ==
    contrastRatio >= (IF isLarge THEN AA_LARGE ELSE AA_NORMAL)

(***************************************************************************)
(* Strings as sequences of characters                                      *)
(***************************************************************************)
UpperCase == <<"A","B","C","D","E","F","G","H","I","J","K","L","M",
               "N","O","P","Q","R","S","T","U","V","W","X","Y","Z">>
LowerCase == <<"a","b","c","d","e","f","g","h","i","j","k","l","m",
               "n","o","p","q","r","s","t","u","v","w","x","y","z">>

\* String.prototype.toLowerCase
toLowerCase(s) ==
    [i \in 1..Len(s) |->
        IF \E k \in 1..26 : UpperCase[k] = s[i]
        THEN LowerCase[CHOOSE k \in 1..26 : UpperCase[k] = s[i]]
        ELSE s[i]]

\* String.prototype.includes
includes(s, word) ==
    \E i \in 0..(Len(s) - Len(word)) : SubSeq(s, i + 1, i + Len(word)) = word

WhiteSpace == {" ", "\t", "\n"}

\* String.prototype.trim
RECURSIVE trimStart(_)
trimStart(s) ==
    IF s # <<>> /\ Head(s) \in WhiteSpace THEN trimStart(Tail(s)) ELSE s

RECURSIVE trimEnd(_)
trimEnd(s) ==
    IF s # <<>> /\ s[Len(s)] \in WhiteSpace
    THEN trimEnd(SubSeq(s, 1, Len(s) - 1)) ELSE s

trim(s) == trimEnd(trimStart(s))

(***************************************************************************)
(* scanner.ts -- weight of a font style name                               *)
(***************************************************************************)
parseFontWeightFromStyle(style) ==
    LET normalized == toLowerCase(style)
        has(word) == includes(normalized, word)
    IN  IF has(<<"b","l","a","c","k">>) \/ has(<<"h","e","a","v","y">>) THEN 900
        ELSE IF has(<<"e","x","t","r","a","b","o","l","d">>)
                \/ has(<<"u","l","t","r","a","b","o","l","d">>) THEN 800
        ELSE IF has(<<"b","o","l","d">>) THEN 700
        ELSE IF has(<<"s","e","m","i","b","o","l","d">>)
                \/ has(<<"d","e","m","i","b","o","l","d">>) THEN 600
        ELSE IF has(<<"m","e","d","i","u","m">>) THEN 500
        ELSE IF has(<<"r","e","g","u","l","a","r">>)
                \/ has(<<"n","o","r","m","a","l">>) THEN 400
        ELSE IF has(<<"l","i","g","h","t">>) THEN 300
        ELSE IF has(<<"e","x","t","r","a","l","i","g","h","t">>)
                \/ has(<<"u","l","t","r","a","l","i","g","h","t">>) THEN 200
        ELSE IF has(<<"t","h","i","n">>)
                \/ has(<<"h","a","i","r","l","i","n","e">>) THEN 100
        ELSE 400

(***************************************************************************)
(* The document provider: pages, nodes, paints, styles, fonts              *)
(***************************************************************************)
Black == [r |-> 0, g |-> 0, b |-> 0]
White == [r |-> 1000, g |-> 1000, b |-> 1000]

\* a paint of a fill list; opacity may be absent
Solid(color, opacity, visible) ==
    [type |-> "SOLID", visible |-> visible, opacity |-> opacity, color |-> color]
Gradient ==
    [type |-> "GRADIENT_LINEAR", visible |-> TRUE, opacity |-> Undefined, color |-> Black]

\* figma.mixed where a fill list, a font size or a style id is expected
MixedFills == <<Mixed>>
MixedNumber == 0 - 2
MixedStyleId == "figma.mixed"

Regular == <<"R","e","g","u","l","a","r">>
Bold == <<"B","o","l","d">>
Inter(style) == [family |-> "Inter", style |-> style]
Ghost == [family |-> "Ghost Sans", style |-> Regular]

Box(x, y, width, height) == <<[x |-> x, y |-> y, width |-> width, height |-> height]>>

\* the fields a node can have; throws: the properties whose access raises
NodeDefaults ==
    [type |-> "FRAME", parent |-> "", children |-> <<>>, visible |-> TRUE,
     fills |-> <<>>, box |-> <<>>, backgrounds |-> <<>>, throws |-> {},
     characters |-> <<>>, textStyleId |-> "", fontName |-> Inter(Regular),
     fontSize |-> 1600, rangeFontName |-> Inter(Regular), rangeFontSize |-> 1600]

Node(fields) == fields @@ NodeDefaults

TextNode(parent, box) ==
    Node([type |-> "TEXT", parent |-> parent, box |-> box,
          fills |-> <<Solid(Black, Undefined, TRUE)>>,
          characters |-> <<"H", "i">>])

NodeIds == {"P", "A", "R", "B", "T1", "T2", "T3"}

\* page P: frame A (rectangle R, frame B (text T2), text T1), text T3;
\* R lies behind T1 and overlaps it, B lies behind T1 beside it
BaseNodes ==
    [id \in NodeIds |->
        CASE id = "P" -> Node([type |-> "PAGE", children |-> <<"A", "T3">>,
                               backgrounds |-> <<Solid(White, Undefined, TRUE)>>])
          [] id = "A" -> Node([parent |-> "P", children |-> <<"R", "B", "T1">>,
                               box |-> Box(0, 0, 400, 400)])
          [] id = "R" -> Node([type |-> "RECTANGLE", parent |-> "A",
                               box |-> Box(0, 0, 200, 100)])
          [] id = "B" -> Node([parent |-> "A", children |-> <<"T2">>,
                               box |-> Box(0, 200, 200, 100)])
          [] id = "T1" -> TextNode("A", Box(10, 10, 100, 20))
          [] id = "T2" -> TextNode("B", Box(10, 210, 100, 20))
          [] id = "T3" -> TextNode("P", Box(500, 10, 100, 20))]

\* figma.getStyleById: a style record, null, or a failing lookup
BaseStyles ==
    [id \in {"S:1", "S:gone"} |->
        IF id = "S:1"
        THEN [kind |-> "style", fontName |-> Inter(Bold), fontSize |-> 2400]
        ELSE [kind |-> "throws"]]

BaseDoc ==
    [nodes |-> BaseNodes, styles |-> BaseStyles,
     fonts |-> {Inter(Regular), Inter(Bold)}]

\* the features in which a scanned document differs from the baseline
Toggles ==
    <<"T1.blank", "T1.hidden", "T1.missing", "T1.faint", "T1.bold", "T1.mixed",
      "T1.styled", "T1.badstyle", "T1.detached", "A.white", "A.hidden",
      "A.broken", "B.black", "R.white", "R.badbox", "P.dim", "P.empty">>

Apply(d, t) ==
    CASE t = "T1.blank" -> [d EXCEPT !.nodes["T1"].characters = <<" ", "\n">>]
      [] t = "T1.hidden" -> [d EXCEPT !.nodes["T1"].visible = FALSE]
      [] t = "T1.missing" -> [d EXCEPT !.nodes["T1"].fontName = Ghost]
      [] t = "T1.faint" ->
            [d EXCEPT !.nodes["T1"].fills = <<Gradient, Solid(Black, 500, TRUE)>>]
      [] t = "T1.bold" -> [d EXCEPT !.nodes["T1"].fontName = Inter(Bold),
                                    !.nodes["T1"].fontSize = BOLD_PX]
      [] t = "T1.mixed" -> [d EXCEPT !.nodes["T1"].fontName = Mixed,
                                     !.nodes["T1"].fontSize = MixedNumber,
                                     !.nodes["T1"].rangeFontName = Ghost,
                                     !.nodes["T1"].rangeFontSize = REGULAR_PX]
      [] t = "T1.styled" -> [d EXCEPT !.nodes["T1"].textStyleId = "S:1"]
      [] t = "T1.badstyle" -> [d EXCEPT !.nodes["T1"].textStyleId = "S:gone"]
      [] t = "T1.detached" -> [d EXCEPT !.nodes["T1"].throws = {"fontName"}]
      [] t = "A.white" -> [d EXCEPT !.nodes["A"].fills =
                                <<Solid(Black, Undefined, FALSE), Solid(White, 1000, TRUE)>>]
      [] t = "A.hidden" -> [d EXCEPT !.nodes["A"].visible = FALSE]
      [] t = "A.broken" -> [d EXCEPT !.nodes["A"].throws = {"fills"}]
      [] t = "B.black" -> [d EXCEPT !.nodes["B"].fills = <<Solid(Black, Undefined, TRUE)>>,
                                    !.nodes["B"].box = Box(0, 0, 200, 300)]
      [] t = "R.white" -> [d EXCEPT !.nodes["R"].fills = <<Solid(White, Undefined, TRUE)>>]
      [] t = "R.badbox" -> [d EXCEPT !.nodes["R"].throws = {"absoluteBoundingBox"},
                                     !.nodes["R"].fills = <<Solid(Black, Undefined, TRUE)>>]
      [] t = "P.dim" -> [d EXCEPT !.nodes["P"].backgrounds =
                                <<Solid(Black, Undefined, FALSE), Solid(White, Undefined, TRUE)>>]
      [] t = "P.empty" -> [d EXCEPT !.nodes["P"].children = <<>>]
      [] t = "A.over" -> [d EXCEPT !.nodes["A"].box = Box(0, 0, 700, 400)]
      [] t = "A.first" -> [d EXCEPT !.nodes["A"].children = <<"T1", "R", "B">>]
      [] t = "B.mixed" -> [d EXCEPT !.nodes["B"].fills = MixedFills]
      [] t = "R.half" -> [d EXCEPT !.nodes["R"].fills =
                                <<Gradient, Solid(Black, 500, TRUE)>>]
      [] t = "R.inB" -> [d EXCEPT !.nodes["R"].parent = "B",
                                  !.nodes["R"].box = Box(0, 200, 200, 100),
                                  !.nodes["B"].children = <<"R", "T2">>,
                                  !.nodes["A"].children = <<"B", "T1">>]

RECURSIVE ApplyAll(_, _, _)
ApplyAll(d, chosen, i) ==
    IF i > Len(Toggles) THEN d
    ELSE ApplyAll(IF Toggles[i] \in chosen THEN Apply(d, Toggles[i]) ELSE d, chosen, i + 1)

ToggleSet == {Toggles[i] : i \in 1..Len(Toggles)}

Documents ==
    {ApplyAll(BaseDoc, chosen, 1) :
        chosen \in {c \in SUBSET ToggleSet : Cardinality(c) <= MaxDev}}

(***************************************************************************)
(* State                                                                   *)
(***************************************************************************)
VARIABLES
    doc,                \* the document the provider serves
    currentPage,        \* figma.currentPage (a node id)
    selection,          \* figma.currentPage.selection (node ids, in order)
    clock,              \* Date.now()
    pc,                 \* where performScan / scanSelection stands
    options,            \* the ScanOptions of the running scan
    startTime,          \* scanSelection: startTime
    roots,              \* scanSelection: the nodes the for-loop iterates over
    idx,                \* scanSelection: position of the for-loop in roots
    textLayers,         \* scanSelection: textLayers
    timedOut,           \* scanSelection: timedOut
    lastProgressReport, \* scanSelection: lastProgressReport
    visited,            \* the roots visited so far, with the time each visit ended
    calls,              \* the onProgress calls made so far
    emitted,            \* the events emitted to the UI so far
    result,             \* <<>> or <<the ScanResult scanSelection returned>>
    parked,             \* the selection kept by each page that is not the current one
    viewport,           \* <<>> or <<the node last scrolled into view>>
    focusLog,           \* the latest focusOnNode call and what it returned
    inv,                \* the locals of each of two scanSelection invocations in flight
    applied,            \* a function of contrast.ts applied: its name and arguments
    returned            \* <<>> or <<what that call returned>>

vars == <<doc, currentPage, selection, clock, pc, options, startTime, roots, idx,
          textLayers, timedOut, lastProgressReport, visited, calls, emitted, result,
          parked, viewport, focusLog, inv, applied, returned>>

\* what only focusOnNode writes
focusVars == <<parked, viewport, focusLog>>

\* what only overlapping invocations write
overlapVars == <<inv>>

\* what only the calls of the functions of contrast.ts write
pureVars == <<applied, returned>>

node(id) == doc.nodes[id]

\* the result of a call that may raise: threw, or a value
Raise == [threw |-> TRUE, value |-> <<>>]
Return(v) == [threw |-> FALSE, value |-> v]

(***************************************************************************)
(* scanner.ts -- font extraction                                           *)
(***************************************************************************)
\* a slip: a rejected font load taken for a success
checkFontMissing_Loaded(fontName) == FALSE

\* figma.loadFontAsync rejects for a font that is not installed
checkFontMissing(fontName) == fontName \notin doc.fonts

\* lineHeight and letterSpacing take no part in classification and are left out
InitialFont ==
    [fontFamily |-> "Unknown", fontSize |-> 1200, fontWeight |-> 400,
     fontStyle |-> <<"n","o","r","m","a","l">>, isMissing |-> FALSE]

NamedFont(info, fontName) ==
    [info EXCEPT !.fontFamily = fontName.family,
                 !.fontStyle = fontName.style,
                 !.fontWeight = parseFontWeightFromStyle(fontName.style),
                 !.isMissing = checkFontMissing(fontName)]

\* extractFontInfo, step 1: the text style, when the node has one; a failing
\* lookup is caught and a null style is skipped
FontFromStyle(n) ==
    IF n.textStyleId # "" /\ n.textStyleId # MixedStyleId
       /\ doc.styles[n.textStyleId].kind = "style"
    THEN [NamedFont(InitialFont, doc.styles[n.textStyleId].fontName)
            EXCEPT !.fontSize = doc.styles[n.textStyleId].fontSize]
    ELSE InitialFont

\* extractFontInfo, step 2: the node's own font, or that of its first character
FontFromNode(n, info) ==
    IF info.fontFamily # "Unknown" THEN Return(info)
    ELSE IF "fontName" \in n.throws THEN Raise
    ELSE Return(NamedFont(info, IF n.fontName # Mixed THEN n.fontName
                                ELSE n.rangeFontName))

\* extractFontInfo, font size
FontSized(n, named) ==
    IF named.threw THEN Raise
    ELSE Return([named.value EXCEPT !.fontSize =
                    IF n.fontSize # MixedNumber THEN n.fontSize ELSE n.rangeFontSize])

extractFontInfo(id) == FontSized(node(id), FontFromNode(node(id), FontFromStyle(node(id))))

(***************************************************************************)
(* scanner.ts -- colour extraction                                         *)
(***************************************************************************)
DEFAULT_BACKGROUND == [r |-> 1000, g |-> 1000, b |-> 1000, a |-> 1000]
OpaqueBlack == [r |-> 0, g |-> 0, b |-> 0, a |-> 1000]

PaintColor(fill) ==
    [r |-> fill.color.r, g |-> fill.color.g, b |-> fill.color.b,
     a |-> OrElse(fill.opacity, 1000)]

\* for (const fill of fills) if (fill.visible !== false && fill.type === 'SOLID')
\* return ...: <<>> when the loop finds nothing
RECURSIVE FirstVisibleSolid(_)
FirstVisibleSolid(fills) ==
    IF fills = <<>> THEN <<>>
    ELSE IF Head(fills).visible # FALSE /\ Head(fills).type = "SOLID"
         THEN <<PaintColor(Head(fills))>>
         ELSE FirstVisibleSolid(Tail(fills))

extractTextColor(id) ==
    LET fills == node(id).fills
        found == FirstVisibleSolid(fills)
    IN  IF fills = MixedFills \/ fills = <<>> THEN OpaqueBlack
        ELSE IF found # <<>> THEN found[1]
        ELSE OpaqueBlack

\* 'fills' in node, 'children' in node
HasFills(id) == node(id).type \in {"FRAME", "RECTANGLE", "TEXT"}
HasChildren(id) == node(id).type \in {"FRAME", "GROUP", "PAGE"}

\* children.indexOf(id): 0-based, -1 when absent
indexOf(children, id) ==
    IF \E i \in 1..Len(children) : children[i] = id
    THEN (CHOOSE i \in 1..Len(children) :
            children[i] = id /\ \A j \in 1..(i - 1) : children[j] # id) - 1
    ELSE 0 - 1

\* a slip: rectangles that share an edge or a corner count as overlapping
checkOverlap_Touching(id1, id2) ==
    IF "absoluteBoundingBox" \in node(id1).throws
       \/ "absoluteBoundingBox" \in node(id2).throws
    THEN FALSE
    ELSE LET box1 == node(id1).box
             box2 == node(id2).box
         IN  IF box1 = <<>> \/ box2 = <<>> THEN FALSE
             ELSE LET bounds1 == box1[1]
                      bounds2 == box2[1]
                  IN  ~(\/ bounds1.x + bounds1.width < bounds2.x
                        \/ bounds2.x + bounds2.width < bounds1.x
                        \/ bounds1.y + bounds1.height < bounds2.y
                        \/ bounds2.y + bounds2.height < bounds1.y)

checkOverlap(id1, id2) ==
    IF "absoluteBoundingBox" \in node(id1).throws
       \/ "absoluteBoundingBox" \in node(id2).throws
    THEN FALSE
    ELSE LET box1 == node(id1).box
             box2 == node(id2).box
         IN  IF box1 = <<>> \/ box2 = <<>> THEN FALSE
             ELSE LET bounds1 == box1[1]
                      bounds2 == box2[1]
                  IN  ~(\/ bounds1.x + bounds1.width <= bounds2.x
                        \/ bounds2.x + bounds2.width <= bounds1.x
                        \/ bounds1.y + bounds1.height <= bounds2.y
                        \/ bounds2.y + bounds2.height <= bounds1.y)

\* the solid fill a node exposes: <<>> for none; raises when the access fails
SolidFillOf(id) ==
    IF ~HasFills(id) THEN Return(<<>>)
    ELSE IF "fills" \in node(id).throws THEN Raise
    ELSE IF node(id).fills = MixedFills THEN Return(<<>>)
    ELSE Return(FirstVisibleSolid(node(id).fills))

\* the loop of findSiblingBackground, from index i (0-based) down to 0
RECURSIVE SiblingsBelow(_, _, _)
SiblingsBelow(textId, children, i) ==
    IF i < 0 THEN Return(<<>>)
    ELSE LET sibling == children[i + 1]
             fill == SolidFillOf(sibling)
         IN  IF ~checkOverlap(textId, sibling)
             THEN SiblingsBelow(textId, children, i - 1)
             ELSE IF fill.threw THEN Raise
             ELSE IF fill.value # <<>> THEN fill
             ELSE SiblingsBelow(textId, children, i - 1)

findSiblingBackground(textId, parent) ==
    IF ~HasChildren(parent) THEN Return(<<>>)
    ELSE LET children == node(parent).children
             textIndex == indexOf(children, textId)
         IN  IF textIndex <= 0 THEN Return(<<>>)
             ELSE SiblingsBelow(textId, children, textIndex - 1)

\* a slip: the visibility of the page background not tested
PageBackground_AnySolid(current) ==
    IF current # "" /\ node(current).type = "PAGE"
       /\ node(current).backgrounds # <<>>
       /\ node(current).backgrounds[1].type = "SOLID"
    THEN <<PaintColor(node(current).backgrounds[1])>>
    ELSE <<>>

\* what findBackgroundColor does once its loop has ended at current
PageBackground(current) ==
    IF current # "" /\ node(current).type = "PAGE"
       /\ node(current).backgrounds # <<>>
    THEN LET bg == node(current).backgrounds[1]
         IN  IF bg.type = "SOLID" /\ bg.visible # FALSE
             THEN <<PaintColor(bg)>>
             ELSE <<>>
    ELSE <<>>

\* a slip: the siblings behind the text consulted before the ancestor's fill
RECURSIVE WalkAncestors_SiblingFirst(_, _)
WalkAncestors_SiblingFirst(textId, current) ==
    IF current = "" \/ node(current).type \in {"PAGE", "DOCUMENT"}
    THEN Return(PageBackground(current))
    ELSE LET own == SolidFillOf(current)
             siblingBg == findSiblingBackground(textId, current)
         IN  IF siblingBg.threw THEN Raise
             ELSE IF siblingBg.value # <<>> THEN siblingBg
             ELSE IF own.threw THEN Raise
             ELSE IF own.value # <<>> THEN own
             ELSE WalkAncestors_SiblingFirst(textId, node(current).parent)

\* the while loop of findBackgroundColor, standing at current
RECURSIVE WalkAncestors(_, _)
WalkAncestors(textId, current) ==
    IF current = "" \/ node(current).type \in {"PAGE", "DOCUMENT"}
    THEN Return(PageBackground(current))
    ELSE LET own == SolidFillOf(current)
             siblingBg == findSiblingBackground(textId, current)
         IN  IF own.threw THEN Raise
             ELSE IF own.value # <<>> THEN own
             ELSE IF siblingBg.threw THEN Raise
             ELSE IF siblingBg.value # <<>> THEN siblingBg
             ELSE WalkAncestors(textId, node(current).parent)

findBackgroundColor(id) == WalkAncestors(id, node(id).parent)

(***************************************************************************)
(* scanner.ts -- the scanning engine                                       *)
(***************************************************************************)
\* a slip in the precedence: the contrast outcome tested before the font
IssueTypeOf_ContrastFirst(isMissing, passesAA, hasBackground) ==
    IF ~passesAA THEN "contrast-fail"
    ELSE IF isMissing THEN "missing-font"
    ELSE IF ~hasBackground THEN "no-background"
    ELSE "none"

\* processTextNode: the issue type, from the three outcomes it depends on
IssueTypeOf(isMissing, passesAA, hasBackground) ==
    IF isMissing THEN "missing-font"
    ELSE IF ~passesAA THEN "contrast-fail"
    ELSE IF ~hasBackground THEN "no-background"
    ELSE "none"

\* a slip: the flag raised for contrast failures only
Classified_FlagOnFail(id, fontInfo, textColor, backgroundColor, contrastRatio, largeText, issueType) ==
    [id |-> id,
     fullCharacters |-> node(id).characters,
     fontInfo |-> fontInfo,
     textColor |-> textColor,
     backgroundColor |-> backgroundColor,
     contrastRatio |-> contrastRatio,
     wcagLevel |-> getWCAGLevel(contrastRatio, largeText),
     isLargeText |-> largeText,
     hasAccessibilityIssue |-> issueType = "contrast-fail",
     issueType |-> issueType]

\* processTextNode, from the contrast ratio on
Classified(id, fontInfo, textColor, backgroundColor, contrastRatio, largeText, issueType) ==
    [id |-> id,
     fullCharacters |-> node(id).characters,
     fontInfo |-> fontInfo,
     textColor |-> textColor,
     backgroundColor |-> backgroundColor,
     contrastRatio |-> contrastRatio,
     wcagLevel |-> getWCAGLevel(contrastRatio, largeText),
     isLargeText |-> largeText,
     hasAccessibilityIssue |-> issueType # "none",
     issueType |-> issueType]

\* processTextNode, from the colours on; backgroundColor is <<>> for null
Measured(id, fontInfo, textColor, backgroundColor, contrastRatio, largeText) ==
    Classified(id, fontInfo, textColor, backgroundColor, contrastRatio, largeText,
               IssueTypeOf(fontInfo.isMissing,
                           passesWCAG_AA(contrastRatio, largeText),
                           backgroundColor # <<>>))

TextData(id, fontInfo, textColor, backgroundColor) ==
    IF fontInfo.threw \/ backgroundColor.threw THEN Raise
    ELSE Return(<<Measured(id, fontInfo.value, textColor, backgroundColor.value,
                    calculateContrastRatioWithAlpha(textColor,
                        IF backgroundColor.value # <<>> THEN backgroundColor.value[1]
                        ELSE DEFAULT_BACKGROUND),
                    isLargeText(fontInfo.value.fontSize, fontInfo.value.fontWeight))>>)

\* a slip: options.minContrastRatio consulted as the threshold of a failure
processTextNode_Threshold(id, opts) ==
    IF trim(node(id).characters) = <<>> THEN Return(<<>>)
    ELSE LET data == TextData(id, extractFontInfo(id), extractTextColor(id),
                              findBackgroundColor(id))
         IN  IF data.threw THEN data
             ELSE IF /\ data.value[1].issueType \in {"none", "no-background"}
                     /\ data.value[1].contrastRatio < opts.minContrastRatio
                  THEN Return(<<[data.value[1] EXCEPT !.issueType = "contrast-fail",
                                                      !.hasAccessibilityIssue = TRUE]>>)
                  ELSE data

\* <<>> for null, <<record>> for a TextLayerData; name, position, size and the
\* display strings of the record are left out
processTextNode(id, opts) ==
    IF trim(node(id).characters) = <<>> THEN Return(<<>>)
    ELSE TextData(id, extractFontInfo(id), extractTextColor(id), findBackgroundColor(id))

\* a slip: only hidden text nodes are skipped, hidden containers are entered
SkipsNode_TextOnly(id, opts) ==
    ~opts.includeHiddenLayers /\ ~node(id).visible /\ node(id).type = "TEXT"

\* scanNodeRecursive: whether the node and its subtree are skipped
SkipsNode(id, opts) == ~opts.includeHiddenLayers /\ ~node(id).visible

\* a slip: the children scanned from the topmost layer down
ChildOrder_Reversed(id) ==
    [i \in 1..Len(node(id).children) |->
        node(id).children[Len(node(id).children) + 1 - i]]

\* scanNodeRecursive: the order in which the children of a node are scanned
ChildOrder(id) == node(id).children

\* textLayers.push(textData) when textData is not null
Pushed(layers, textData) ==
    IF textData.threw THEN Raise ELSE Return(layers \o textData.value)

\* after[i]: the accumulator once the node itself and its first i children
\* have been scanned
RECURSIVE scanNodeRecursive(_, _, _)
scanNodeRecursive(id, layers, opts) ==
    IF SkipsNode(id, opts) THEN Return(layers)
    ELSE LET children == IF HasChildren(id) THEN ChildOrder(id) ELSE <<>>
             after[i \in 0..Len(children)] ==
                 IF i = 0
                 THEN IF node(id).type # "TEXT" THEN Return(layers)
                      ELSE Pushed(layers, processTextNode(id, opts))
                 ELSE IF after[i - 1].threw THEN Raise
                 ELSE scanNodeRecursive(children[i], after[i - 1].value, opts)
         IN  after[Len(children)]

DefaultTimeout == 30000
progressInterval == 100

\* scanSelection: const timeout = options.timeout ?? 30000
TimeoutOf(opts) == OrElse(opts.timeout, DefaultTimeout)

\* a slip: no timeout in force when options.timeout is absent
checkTimeout_NoDefault(now) ==
    options.timeout # Undefined /\ now - startTime > options.timeout

\* scanSelection.checkTimeout at time now
checkTimeout(now) == now - startTime > TimeoutOf(options)

\* a slip: no throttling
ShouldReport_Always(force, now) == TRUE

\* scanSelection.reportProgress: whether the callback is made at time now
ShouldReport(force, now) == force \/ now - lastProgressReport > progressInterval

\* a slip: the number of issues reported instead of the number of records
ProgressValue_Issues(layers) ==
    CountIf(layers, {"contrast-fail", "missing-font", "no-background"})

\* scanSelection.reportProgress: the value handed to options.onProgress
ProgressValue(layers) == Len(layers)

\* a slip: records without a background not counted as warnings
WarningCount_MissingOnly(layers) == CountIf(layers, {"missing-font"})

\* scanSelection: the statistics of the result
ErrorCount(layers) == CountIf(layers, {"contrast-fail"})
WarningCount(layers) == CountIf(layers, {"missing-font", "no-background"})
PassCount(layers) == CountIf(layers, {"none"})

\* scanSelection: the nodes the for-loop iterates over
ScanRoots == IF Len(selection) = 0 THEN node(currentPage).children ELSE selection

(***************************************************************************)
(* main.ts -- options and events                                           *)
(***************************************************************************)
DEFAULT_SCAN_OPTIONS ==
    [minContrastRatio |-> 450, checkLargeText |-> TRUE,
     includeHiddenLayers |-> FALSE, timeout |-> Undefined]

\* the options a SCAN_REQUEST may carry; one request asks for a stricter
\* ratio with large text unchecked, the two values the classifier is given
RequestOptions ==
    [minContrastRatio : {450}, checkLargeText : {TRUE},
     includeHiddenLayers : BOOLEAN, timeout : {Undefined, 100}]
    \cup {[minContrastRatio |-> 700, checkLargeText |-> FALSE,
           includeHiddenLayers |-> FALSE, timeout |-> Undefined]}

\* how long the visit of one top-level root may take
Ticks == {50, 100, 30001}

Event(type, payload) == [type |-> type, payload |-> payload]

(***************************************************************************)
(* Initial states                                                          *)
(***************************************************************************)
Selectable == {"B", "T3"}

\* the pages of a document
Pages == {"P", "Q"}

RECURSIVE IsAncestor(_, _)
IsAncestor(a, id) ==
    LET p == BaseNodes[id].parent
    IN  p # "" /\ (p = a \/ IsAncestor(a, p))

\* whether node id is the page's child or further below it, in document d
RECURSIVE OnPage(_, _, _)
OnPage(d, top, id) ==
    \E i \in 1..Len(d.nodes[top].children) :
        d.nodes[top].children[i] = id \/ OnPage(d, d.nodes[top].children[i], id)

\* the selections the editor allows: distinct nodes of the page, none inside another
Selections ==
    {s \in UNION {[1..n -> Selectable] : n \in 0..MaxSel} :
        \A i, j \in 1..Len(s) :
            i # j => s[i] # s[j] /\ ~IsAncestor(s[i], s[j])}

Init ==
    /\ doc \in Documents
    /\ currentPage = "P"
    /\ selection \in {s \in Selections : \A i \in 1..Len(s) : OnPage(doc, "P", s[i])}
    /\ clock = Epoch
    /\ pc = "start"
    /\ options = DEFAULT_SCAN_OPTIONS
    /\ startTime = 0
    /\ roots = <<>>
    /\ idx = 1
    /\ textLayers = <<>>
    /\ timedOut = FALSE
    /\ lastProgressReport = 0
    /\ visited = <<>>
    /\ calls = <<>>
    /\ emitted = <<>>
    /\ result = <<>>
    /\ parked = [p \in Pages |-> <<>>]
    /\ viewport = <<>>
    /\ focusLog = <<>>
    /\ inv = <<>>
    /\ applied = <<>>
    /\ returned = <<>>

(***************************************************************************)
(* Actions                                                                 *)
(***************************************************************************)
\* a slip: the failure reported to the UI as a result
emitError_AsResult(message) == Event("SCAN_RESULT", message)

\* a slip: the scan deselects what it has scanned
ReadOnly_Deselects == selection' = <<>> /\ UNCHANGED <<doc, currentPage>>

\* scanner.ts holds no assignment to a node, to figma.currentPage or to its
\* selection outside focusOnNode
ReadOnly == UNCHANGED <<doc, currentPage, selection>>

\* emitError: the message of a caught Error
emitError(message) == Event("ERROR", message)

\* the message of the Error a failing provider access throws
AccessFailed == "access failed"

\* the scans that ended in an ERROR so far
Failures == Len(SelectSeq(emitted, LAMBDA e : e.type = "ERROR"))

\* performScan up to the first iteration of the loop of scanSelection, after
\* the events emitted so far
PerformScan(opts, events) ==
    /\ emitted' = Append(events, Event("SCAN_STARTED", 0))
    /\ options' = opts
    /\ startTime' = clock
    /\ textLayers' = <<>>
    /\ timedOut' = FALSE
    /\ lastProgressReport' = 0
    /\ roots' = ScanRoots
    /\ idx' = 1
    /\ visited' = <<>>
    /\ calls' = <<>>
    /\ result' = <<>>
    /\ pc' = "loop"
    /\ ReadOnly
    /\ UNCHANGED <<clock, focusVars, overlapVars, pureVars>>

\* a slip: the auto-scan started whatever the selection
PluginStart_Always ==
    /\ pc = "start"
    /\ PerformScan(DEFAULT_SCAN_OPTIONS,
                   Append(emitted, Event("PLUGIN_READY", Len(selection))))

\* the plugin's entry point: PLUGIN_READY, and the auto-scan when something
\* is selected
PluginStart ==
    /\ pc = "start"
    /\ LET ready == Append(emitted, Event("PLUGIN_READY", Len(selection)))
       IN  IF Len(selection) > 0
           THEN PerformScan(DEFAULT_SCAN_OPTIONS, ready)
           ELSE /\ pc' = "idle"
                /\ emitted' = ready
                /\ UNCHANGED <<doc, currentPage, selection, clock, options, startTime, focusVars, overlapVars, pureVars,
                               roots, idx, textLayers, timedOut, lastProgressReport,
                               visited, calls, result>>

\* figma.on('selectionchange'): the user selects nodes on a page opened
\* without a selection
SelectionChange ==
    /\ pc = "idle"
    /\ selection = <<>>
    /\ \E s \in Selections :
          /\ s # <<>>
          /\ \A i \in 1..Len(s) : OnPage(doc, currentPage, s[i])
          /\ selection' = s
          /\ emitted' = Append(emitted, Event("SELECTION_CHANGED", Len(s)))
    /\ UNCHANGED <<doc, currentPage, clock, pc, options, startTime, roots, idx, focusVars, overlapVars, pureVars,
                   textLayers, timedOut, lastProgressReport, visited, calls, result>>

\* a request is served when no scan is running; requests that follow a
\* completed scan repeat the first and are not followed further
Serving == pc = "idle" \/ (pc = "failed" /\ Failures <= MaxRetries)

\* on('SCAN_REQUEST')
ScanRequest == Serving /\ \E opts \in RequestOptions : PerformScan(opts, emitted)

\* on('RESCAN_REQUEST')
RescanRequest == Serving /\ PerformScan(DEFAULT_SCAN_OPTIONS, emitted)

\* a slip: the loop is left on timeout without the flag being set
LoopCheck_NoFlag ==
    /\ pc = "loop"
    /\ pc' = IF idx > Len(roots) \/ checkTimeout(clock) THEN "final" ELSE "visit"
    /\ ReadOnly
    /\ UNCHANGED <<clock, options, startTime, roots, idx, focusVars, overlapVars, pureVars,
                   textLayers, timedOut, lastProgressReport, visited, calls, emitted,
                   result>>

\* a slip: on timeout the loop neither breaks nor advances
LoopCheck_Spins ==
    /\ pc = "loop"
    /\ pc' = IF idx > Len(roots) THEN "final"
             ELSE IF checkTimeout(clock) THEN "loop" ELSE "visit"
    /\ ReadOnly
    /\ UNCHANGED <<clock, options, startTime, roots, idx, focusVars, overlapVars, pureVars,
                   textLayers, timedOut, lastProgressReport, visited, calls, emitted,
                   result>>

\* the head of the for-loop: the next root, and if (checkTimeout()) break
LoopCheck ==
    /\ pc = "loop"
    /\ IF idx > Len(roots)
       THEN pc' = "final" /\ UNCHANGED timedOut
       ELSE IF checkTimeout(clock)
            THEN pc' = "final" /\ timedOut' = TRUE
            ELSE pc' = "visit" /\ UNCHANGED timedOut
    /\ ReadOnly
    /\ UNCHANGED <<clock, options, startTime, roots, idx, focusVars, overlapVars, pureVars,
                   textLayers, lastProgressReport, visited, calls, emitted, result>>

\* await scanNodeRecursive(root, ...) and reportProgress(); a failure leaves
\* scanSelection and is caught by performScan
VisitRoot ==
    /\ pc = "visit"
    /\ LET scanned == scanNodeRecursive(roots[idx], textLayers, options)
       IN  \E d \in Ticks :
            LET now == clock + d
            IN  /\ clock' = now
                /\ IF scanned.threw
                   THEN /\ pc' = "failed"
                        /\ emitted' = Append(emitted, emitError(AccessFailed))
                        /\ UNCHANGED <<textLayers, idx, visited, calls, lastProgressReport>>
                   ELSE /\ pc' = "loop"
                        /\ textLayers' = scanned.value
                        /\ idx' = idx + 1
                        /\ visited' = Append(visited, [root |-> roots[idx], endedAt |-> now])
                        /\ IF ShouldReport(FALSE, now)
                           THEN /\ calls' = Append(calls,
                                       [scanned |-> ProgressValue(scanned.value),
                                        at |-> now, final |-> FALSE])
                                /\ emitted' = Append(emitted,
                                       Event("SCAN_PROGRESS", ProgressValue(scanned.value)))
                                /\ lastProgressReport' = now
                           ELSE UNCHANGED <<calls, emitted, lastProgressReport>>
    /\ ReadOnly
    /\ UNCHANGED <<options, startTime, roots, timedOut, result, focusVars, overlapVars, pureVars>>

\* a slip: the start of the scan given as its timestamp
ResultTimestamp_AtStart(start, now) == start

\* timestamp: Date.now() in the returned object, read when the scan is over
ResultTimestamp(start, now) == now

\* reportProgress(true), the statistics and the return of scanSelection, and
\* the SCAN_RESULT of performScan
Finish ==
    /\ pc = "final"
    /\ calls' = Append(calls, [scanned |-> ProgressValue(textLayers),
                               at |-> clock, final |-> TRUE])
    /\ lastProgressReport' = clock
    /\ result' = <<[textLayers |-> textLayers,
                    totalScanned |-> Len(textLayers),
                    errorCount |-> ErrorCount(textLayers),
                    warningCount |-> WarningCount(textLayers),
                    passCount |-> PassCount(textLayers),
                    scanDuration |-> clock - startTime,
                    timestamp |-> ResultTimestamp(startTime, clock),
                    timedOut |-> timedOut]>>
    /\ emitted' = emitted \o <<Event("SCAN_PROGRESS", ProgressValue(textLayers)),
                               Event("SCAN_RESULT", Len(textLayers))>>
    /\ pc' = "done"
    /\ ReadOnly
    /\ UNCHANGED <<clock, options, startTime, roots, idx, focusVars, overlapVars, pureVars,
                   textLayers, timedOut, visited>>

Next ==
    \/ PluginStart
    \/ SelectionChange
    \/ ScanRequest
    \/ RescanRequest
    \/ LoopCheck
    \/ VisitRoot
    \/ Finish

Spec == Init /\ [][Next]_vars

\* every awaited provider call of a visit returns or fails: the scan is not
\* suspended at the await for ever.  VisitRoot is enabled exactly when
\* pc = "visit" and each of its steps leaves "visit", so this is
\* WF_vars(VisitRoot), stated on the program counter
VisitReturns == []<>(pc # "visit")

\* the scan's own steps are taken: the loop head and the return are
\* synchronous code
FairSpec == Spec /\ WF_vars(LoopCheck) /\ VisitReturns /\ WF_vars(Finish)

(***************************************************************************)
(* scanner.ts -- focusOnNode, and the FOCUS_NODE handler of main.ts        *)
(***************************************************************************)
\* a second page Q: rectangle Q1, and Q2 whose absoluteBoundingBox is null
FocusNodeIds == NodeIds \cup {"Q", "Q1", "Q2"}

FocusNodes ==
    [id \in FocusNodeIds |->
        CASE id = "Q" -> Node([type |-> "PAGE", children |-> <<"Q1", "Q2">>])
          [] id = "Q1" -> Node([type |-> "RECTANGLE", parent |-> "Q",
                                box |-> Box(0, 0, 50, 50)])
          [] id = "Q2" -> Node([type |-> "GROUP", parent |-> "Q"])
          [] OTHER -> BaseNodes[id]]

FocusDoc == [BaseDoc EXCEPT !.nodes = FocusNodes]

\* the payloads a FOCUS_NODE message may carry: a string naming a node, a
\* node that is gone, the empty string, or no string at all
FocusPayloads ==
    [nodeId : {"T1", "B", "P", "Q1", "Q2", "gone", ""}, type : {"string"}]
        \cup [nodeId : {""}, type : {"number", "undefined"}]

\* the provider calls of focusOnNode; at most one of them raises in a call
ProviderCalls ==
    {"getNodeByIdAsync", "absoluteBoundingBox", "currentPage",
     "scrollAndZoomIntoView", "selection"}

Raising == {{}} \cup {{c} : c \in ProviderCalls}

NotFound == "Layer was not found. It may have been deleted or moved."
NotFocusable == "This type of layer cannot be selected."
NoBounds == "Layer has no position information."
Unexpected == "An unexpected error occurred"
InvalidNodeId == "Invalid node ID provided"

Success == [success |-> TRUE, error |-> ""]
Failure(error) == [success |-> FALSE, error |-> error]

\* let parent = node.parent; while (parent && parent.type !== 'PAGE') ...:
\* "" when the walk ends at null
RECURSIVE ContainingPage(_)
ContainingPage(id) ==
    LET parent == node(id).parent
    IN  IF parent = "" THEN ""
        ELSE IF node(parent).type = "PAGE" THEN parent
        ELSE ContainingPage(parent)

\* a slip: the page never switched
SwitchesPage_Never(page) == FALSE

\* if (parent && parent.type === 'PAGE' && figma.currentPage.id !== parent.id)
SwitchesPage(page) == page # "" /\ currentPage # page

\* the document state after focusOnNode, and what it returned
Outcome(res, page, sel, park, view) ==
    [result |-> res, currentPage |-> page, selection |-> sel, parked |-> park,
     viewport |-> view]

\* focusOnNode from the page switch on: each page keeps its own selection
FocusFrom(nodeId, raising, page, sel, park) ==
    IF "scrollAndZoomIntoView" \in raising
    THEN Outcome(Failure(Unexpected), page, sel, park, viewport)
    ELSE IF "selection" \in raising
    THEN Outcome(Failure(Unexpected), page, sel, park, <<nodeId>>)
    ELSE Outcome(Success, page, <<nodeId>>, park, <<nodeId>>)

focusOnNode(nodeId, raising) ==
    LET stays(error) == Outcome(Failure(error), currentPage, selection, parked, viewport)
    IN  IF "getNodeByIdAsync" \in raising THEN stays(Unexpected)
        ELSE IF nodeId \notin DOMAIN doc.nodes THEN stays(NotFound)
        ELSE IF node(nodeId).type \in {"PAGE", "DOCUMENT"} THEN stays(NotFocusable)
        ELSE IF "absoluteBoundingBox" \in raising THEN stays(Unexpected)
        ELSE IF node(nodeId).box = <<>> THEN stays(NoBounds)
        ELSE IF ~SwitchesPage(ContainingPage(nodeId))
        THEN FocusFrom(nodeId, raising, currentPage, selection, parked)
        ELSE IF "currentPage" \in raising THEN stays(Unexpected)
        ELSE FocusFrom(nodeId, raising, ContainingPage(nodeId),
                       parked[ContainingPage(nodeId)],
                       [parked EXCEPT ![currentPage] = selection,
                                      ![ContainingPage(nodeId)] = <<>>])

\* a slip: a failed focus not reported to the UI
FocusReply_Silent(res) == <<>>

\* if (!result.success) emitError(result.error || ...)
FocusReply(res) == IF res.success THEN <<>> ELSE <<emitError(res.error)>>

\* on('FOCUS_NODE'); focusLog holds the latest call
FocusNode ==
    /\ pc = "idle"
    /\ Len(emitted) < MaxFocusErrors
    /\ \E payload \in FocusPayloads, raising \in Raising :
          IF payload.type # "string" \/ payload.nodeId = ""
          THEN /\ emitted' = Append(emitted, emitError(InvalidNodeId))
               /\ focusLog' = <<[payload |-> payload, raising |-> raising, result |-> <<>>]>>
               /\ UNCHANGED <<currentPage, selection, parked, viewport>>
          ELSE LET out == focusOnNode(payload.nodeId, raising)
               IN  /\ emitted' = emitted \o FocusReply(out.result)
                   /\ focusLog' = <<[payload |-> payload, raising |-> raising,
                                     result |-> <<out.result>>]>>
                   /\ currentPage' = out.currentPage
                   /\ selection' = out.selection
                   /\ parked' = out.parked
                   /\ viewport' = out.viewport
    /\ UNCHANGED <<doc, clock, pc, options, startTime, roots, idx, textLayers, timedOut,
                   lastProgressReport, visited, calls, result, overlapVars, pureVars>>

\* the selections a page may hold
SelectionsOn(page) ==
    IF page = "P" THEN {s \in Selections : \A i \in 1..Len(s) : OnPage(FocusDoc, "P", s[i])}
    ELSE {<<>>, <<"Q1">>}

\* the plugin idle on either page of the two-page document
InitFocus ==
    /\ doc = FocusDoc
    /\ currentPage \in Pages
    /\ selection \in SelectionsOn(currentPage)
    /\ parked \in {f \in [Pages -> UNION {SelectionsOn(p) : p \in Pages}] :
                      \A p \in Pages : IF p = currentPage THEN f[p] = <<>>
                                       ELSE f[p] \in SelectionsOn(p)}
    /\ viewport = <<>>
    /\ focusLog = <<>>
    /\ inv = <<>>
    /\ applied = <<>>
    /\ returned = <<>>
    /\ clock = Epoch
    /\ pc = "idle"
    /\ options = DEFAULT_SCAN_OPTIONS
    /\ startTime = 0
    /\ roots = <<>>
    /\ idx = 1
    /\ textLayers = <<>>
    /\ timedOut = FALSE
    /\ lastProgressReport = 0
    /\ visited = <<>>
    /\ calls = <<>>
    /\ emitted = <<>>
    /\ result = <<>>

NextFocus == FocusNode

SpecFocus == InitFocus /\ [][NextFocus]_vars

(***************************************************************************)
(* scanner.ts -- two scanSelection invocations in flight                   *)
(***************************************************************************)
\* the auto-scan is not awaited and the handlers are async: a second
\* performScan may start while the first is suspended at an await
Invocations == {1, 2}

\* the documents and selections scanned by overlapping invocations
OverlapDocuments ==
    {ApplyAll(BaseDoc, chosen, 1) :
        chosen \in {{}, {"T1.missing"}, {"A.hidden"}, {"T1.detached"}, {"B.black", "T1.blank"}}}

OverlapSelections == {<<>>, <<"B", "T3">>, <<"T3", "B">>}

\* how long a font load may take
OverlapTicks == {10, 30001}

\* the locals of scanSelection before it is entered; stack holds the nodes
\* scanNodeRecursive has yet to enter under the current root
Fresh ==
    [pc |-> "idle", options |-> DEFAULT_SCAN_OPTIONS, startTime |-> 0, roots |-> <<>>,
     idx |-> 1, stack |-> <<>>, textLayers |-> <<>>, timedOut |-> FALSE,
     lastProgressReport |-> 0, result |-> <<>>]

\* a slip: one textLayers array shared by all invocations
LayersOf_Shared(k) == inv[1].textLayers

\* const textLayers: TextLayerData[] = [] is a local of the invocation
LayersOf(k) == inv[k].textLayers

\* what the overlapping invocations leave alone
OverlapFrame ==
    /\ ReadOnly
    /\ UNCHANGED <<pc, options, startTime, roots, idx, textLayers, timedOut,
                   lastProgressReport, visited, calls, emitted, result, focusVars,
                   pureVars>>

\* scanSelection entered: the first invocation with the default options
Enter(k) ==
    /\ inv[k].pc = "idle"
    /\ \E opts \in IF k = 1 THEN {DEFAULT_SCAN_OPTIONS} ELSE RequestOptions :
          inv' = [inv EXCEPT ![k] = [Fresh EXCEPT !.pc = "loop", !.options = opts,
                                                  !.startTime = clock,
                                                  !.roots = ScanRoots]]
    /\ UNCHANGED clock
    /\ OverlapFrame

\* the head of the for-loop of invocation k
LoopHead(k) ==
    /\ inv[k].pc = "loop"
    /\ inv' = [inv EXCEPT ![k] =
                  IF inv[k].idx > Len(inv[k].roots)
                  THEN [inv[k] EXCEPT !.pc = "final"]
                  ELSE IF clock - inv[k].startTime > TimeoutOf(inv[k].options)
                       THEN [inv[k] EXCEPT !.pc = "final", !.timedOut = TRUE]
                       ELSE [inv[k] EXCEPT !.pc = "visit",
                                           !.stack = <<inv[k].roots[inv[k].idx]>>]]
    /\ UNCHANGED clock
    /\ OverlapFrame

\* invocation k after scanNodeRecursive has dealt with one node: the record
\* pushed, the children entered next, and reportProgress after the last node
\* of the root
Advanced(k, rest, data, now) ==
    IF data.threw THEN [inv[k] EXCEPT !.pc = "failed"]
    ELSE IF rest # <<>>
         THEN [inv[k] EXCEPT !.textLayers = LayersOf(k) \o data.value, !.stack = rest]
         ELSE [inv[k] EXCEPT !.textLayers = LayersOf(k) \o data.value, !.stack = rest,
                             !.idx = inv[k].idx + 1, !.pc = "loop",
                             !.lastProgressReport =
                                 IF now - inv[k].lastProgressReport > progressInterval
                                 THEN now ELSE inv[k].lastProgressReport]

\* one activation of scanNodeRecursive in invocation k; time passes while a
\* font is loaded
Await(k) ==
    /\ inv[k].pc = "visit"
    /\ LET id == Head(inv[k].stack)
           opts == inv[k].options
           skipped == SkipsNode(id, opts)
           isText == ~skipped /\ node(id).type = "TEXT"
       IN  \E d \in IF isText THEN OverlapTicks ELSE {0} :
              /\ clock' = clock + d
              /\ inv' = [inv EXCEPT ![k] =
                    Advanced(k,
                        IF skipped THEN Tail(inv[k].stack)
                        ELSE (IF HasChildren(id) THEN ChildOrder(id) ELSE <<>>)
                                 \o Tail(inv[k].stack),
                        IF isText THEN processTextNode(id, opts) ELSE Return(<<>>),
                        clock + d)]
    /\ OverlapFrame

\* the statistics and the return of invocation k
Leave(k) ==
    /\ inv[k].pc = "final"
    /\ inv' = [inv EXCEPT ![k] =
                  [inv[k] EXCEPT !.pc = "done",
                                 !.result = <<[textLayers |-> LayersOf(k),
                                               totalScanned |-> Len(LayersOf(k)),
                                               errorCount |-> ErrorCount(LayersOf(k)),
                                               warningCount |-> WarningCount(LayersOf(k)),
                                               passCount |-> PassCount(LayersOf(k)),
                                               scanDuration |-> clock - inv[k].startTime,
                                               timestamp |-> ResultTimestamp(inv[k].startTime, clock),
                                               timedOut |-> inv[k].timedOut]>>]]
    /\ UNCHANGED clock
    /\ OverlapFrame

InitOverlap ==
    /\ doc \in OverlapDocuments
    /\ currentPage = "P"
    /\ selection \in OverlapSelections
    /\ inv = [k \in Invocations |-> Fresh]
    /\ applied = <<>>
    /\ returned = <<>>
    /\ parked = [p \in Pages |-> <<>>]
    /\ viewport = <<>>
    /\ focusLog = <<>>
    /\ clock = Epoch
    /\ pc = "idle"
    /\ options = DEFAULT_SCAN_OPTIONS
    /\ startTime = 0
    /\ roots = <<>>
    /\ idx = 1
    /\ textLayers = <<>>
    /\ timedOut = FALSE
    /\ lastProgressReport = 0
    /\ visited = <<>>
    /\ calls = <<>>
    /\ emitted = <<>>
    /\ result = <<>>

NextOverlap == \E k \in Invocations : Enter(k) \/ LoopHead(k) \/ Await(k) \/ Leave(k)

SpecOverlap == InitOverlap /\ [][NextOverlap]_vars

(***************************************************************************)
(* contrast.ts -- the classifiers called on their own                      *)
(*                                                                         *)
(* A contrast ratio lies between 1 and 21; here in hundredths.  Font sizes *)
(* are hundredths of a pixel around the two thresholds, weights the nine   *)
(* CSS weights and the two values next to 700.                             *)
(***************************************************************************)
MaxRatio == 2100
MinSize == 1800
MaxSize == 2450

Ratios == 100..MaxRatio
Sizes == MinSize..MaxSize
Weights == {100 * k : k \in 1..9} \cup {699, 701}

LevelCalls ==
    [fn : {"getWCAGLevel"}, contrastRatio : Ratios, isLarge : BOOLEAN]

LargeCalls ==
    [fn : {"isLargeText"}, fontSize : Sizes, fontWeight : Weights]

\* getWCAGLevel(contrastRatio, isLarge) called and returned
GetWCAGLevel ==
    /\ applied \in LevelCalls
    /\ returned = <<>>
    /\ returned' = <<getWCAGLevel(applied.contrastRatio, applied.isLarge)>>
    /\ UNCHANGED <<doc, currentPage, selection, clock, pc, options, startTime, roots,
                   idx, textLayers, timedOut, lastProgressReport, visited, calls,
                   emitted, result, focusVars, overlapVars, applied>>

\* isLargeText(fontSize, fontWeight) called and returned, the weight a number
IsLargeText ==
    /\ applied \in LargeCalls
    /\ returned = <<>>
    /\ returned' = <<isLargeText(applied.fontSize, applied.fontWeight)>>
    /\ UNCHANGED <<doc, currentPage, selection, clock, pc, options, startTime, roots,
                   idx, textLayers, timedOut, lastProgressReport, visited, calls,
                   emitted, result, focusVars, overlapVars, applied>>

\* what a call of a function leaves alone
ContrastFrame ==
    UNCHANGED <<doc, currentPage, selection, clock, pc, options, startTime, roots,
                idx, textLayers, timedOut, lastProgressReport, visited, calls,
                emitted, result, focusVars, overlapVars, applied>>

\* colour channels in thousandths, some outside the range 0..1
Channels == {0 - 100, 0, 40, 500, 1000, 1200}
Colours == [r : Channels, g : Channels, b : Channels]

RatioCalls ==
    [fn : {"calculateContrastRatio"}, foreground : Colours, background : Colours]

\* calculateContrastRatio(foreground, background) called and returned
CalculateContrastRatio ==
    /\ applied \in RatioCalls
    /\ returned = <<>>
    /\ returned' = <<calculateContrastRatio(applied.foreground, applied.background)>>
    /\ ContrastFrame

\* the colours and fonts processTextNode may have extracted for a text node
Paints ==
    [r : {0, 1000}, g : {0, 500, 1000}, b : {0, 1000}, a : {0, 500, 998, 1000}]
Fonts ==
    {[InitialFont EXCEPT !.fontFamily = "Inter", !.isMissing = m,
                         !.fontSize = f[1], !.fontWeight = f[2]] :
        m \in BOOLEAN, f \in {<<1600, 400>>, <<BOLD_PX, 700>>, <<REGULAR_PX, 400>>}}

RecordCalls ==
    [fn : {"processTextNode"}, fontInfo : Fonts, textColor : Paints,
     backgroundColor : {<<>>} \cup {<<c>> : c \in {p \in Paints : p.g # 500}}]

\* processTextNode from the extracted font and colours on, for the text T1
ProcessTextNode ==
    /\ applied \in RecordCalls
    /\ returned = <<>>
    /\ returned' = TextData("T1", Return(applied.fontInfo), applied.textColor,
                            Return(applied.backgroundColor)).value
    /\ ContrastFrame

\* the style names a font may carry: a weight keyword as fonts spell it, in
\* lower case or in upper case, or a name without any keyword
Keywords ==
    <<
      [name |-> <<"B","l","a","c","k">>, weight |-> 900],
      [name |-> <<"H","e","a","v","y">>, weight |-> 900],
      [name |-> <<"E","x","t","r","a","B","o","l","d">>, weight |-> 800],
      [name |-> <<"U","l","t","r","a","B","o","l","d">>, weight |-> 800],
      [name |-> <<"B","o","l","d">>, weight |-> 700],
      [name |-> <<"S","e","m","i","B","o","l","d">>, weight |-> 600],
      [name |-> <<"D","e","m","i","B","o","l","d">>, weight |-> 600],
      [name |-> <<"M","e","d","i","u","m">>, weight |-> 500],
      [name |-> <<"R","e","g","u","l","a","r">>, weight |-> 400],
      [name |-> <<"N","o","r","m","a","l">>, weight |-> 400],
      [name |-> <<"L","i","g","h","t">>, weight |-> 300],
      [name |-> <<"E","x","t","r","a","L","i","g","h","t">>, weight |-> 200],
      [name |-> <<"U","l","t","r","a","L","i","g","h","t">>, weight |-> 200],
      [name |-> <<"T","h","i","n">>, weight |-> 100],
      [name |-> <<"H","a","i","r","l","i","n","e">>, weight |-> 100]
    >>

PlainStyles ==
    {<<"I","t","a","l","i","c">>,
     <<"C","o","n","d","e","n","s","e","d">>,
     <<"O","b","l","i","q","u","e">>,
     <<>>}

toUpperCase(s) ==
    [i \in 1..Len(s) |->
        IF \E k \in 1..26 : LowerCase[k] = s[i]
        THEN UpperCase[CHOOSE k \in 1..26 : LowerCase[k] = s[i]]
        ELSE s[i]]

StyleNames ==
    PlainStyles \cup UNION {{Keywords[k].name, toLowerCase(Keywords[k].name),
                             toUpperCase(Keywords[k].name)} : k \in 1..Len(Keywords)}

WeightCalls == [fn : {"parseFontWeightFromStyle"}, style : StyleNames]

\* parseFontWeightFromStyle(style) called and returned
ParseFontWeightFromStyle ==
    /\ applied \in WeightCalls
    /\ returned = <<>>
    /\ returned' = <<parseFontWeightFromStyle(applied.style)>>
    /\ ContrastFrame

InitContrast ==
    /\ applied \in LevelCalls \cup LargeCalls \cup RatioCalls \cup RecordCalls
                    \cup WeightCalls
    /\ returned = <<>>
    /\ doc = BaseDoc
    /\ currentPage = "P"
    /\ selection = <<>>
    /\ parked = [p \in Pages |-> <<>>]
    /\ viewport = <<>>
    /\ focusLog = <<>>
    /\ inv = <<>>
    /\ clock = Epoch
    /\ pc = "idle"
    /\ options = DEFAULT_SCAN_OPTIONS
    /\ startTime = 0
    /\ roots = <<>>
    /\ idx = 1
    /\ textLayers = <<>>
    /\ timedOut = FALSE
    /\ lastProgressReport = 0
    /\ visited = <<>>
    /\ calls = <<>>
    /\ emitted = <<>>
    /\ result = <<>>

NextContrast ==
    \/ GetWCAGLevel
    \/ IsLargeText
    \/ CalculateContrastRatio
    \/ ProcessTextNode
    \/ ParseFontWeightFromStyle

SpecContrast == InitContrast /\ [][NextContrast]_vars

(***************************************************************************)
(* scanner.ts -- the background resolver called on its own                 *)
(*                                                                         *)
(* The documents combine what the resolver looks at: the fill of the       *)
(* parent frame A, the fills and boxes of the layers R and B behind the    *)
(* text T1, the layer order in A, the layer R moved behind the text T2 in  *)
(* frame B, frame A lying behind the text T3 on the page, and the page     *)
(* background.                                                             *)
(***************************************************************************)
ResolverToggles ==
    <<"A.white", "A.over", "A.first", "B.black", "B.mixed", "R.white", "R.half",
      "R.badbox", "P.dim", "R.inB">>

RECURSIVE ApplyEach(_, _, _)
ApplyEach(d, names, chosen) ==
    IF names = <<>> THEN d
    ELSE ApplyEach(IF Head(names) \in chosen THEN Apply(d, Head(names)) ELSE d,
                   Tail(names), chosen)

ResolverDocuments ==
    {ApplyEach(BaseDoc, ResolverToggles, chosen) :
        chosen \in SUBSET {ResolverToggles[i] : i \in 1..Len(ResolverToggles)}}

TextIds == {"T1", "T2", "T3"}

BackgroundCalls == [fn : {"findBackgroundColor"}, node : TextIds]

\* findBackgroundColor(node) called and returned; none of these documents
\* has a failing fills access
FindBackgroundColor ==
    /\ applied \in BackgroundCalls
    /\ returned = <<>>
    /\ returned' = <<findBackgroundColor(applied.node).value>>
    /\ ContrastFrame

\* the rectangle R placed around the text T1, which keeps the box
\* (2, 2, 2, 2); either may have no box, or a box whose access fails
MaxCoord == 4

Boxes ==
    {<<>>} \cup {Box(x, y, w, h) : x \in 0..MaxCoord, y \in 0..MaxCoord,
                                   w \in {0, 2, 3}, h \in {0, 2, 3}}

BoxDocuments ==
    {[BaseDoc EXCEPT !.nodes["R"].box = rbox,
                     !.nodes["T1"].box = tbox,
                     !.nodes["R"].throws = IF failing = "R" THEN {"absoluteBoundingBox"} ELSE {},
                     !.nodes["T1"].throws = IF failing = "T1" THEN {"absoluteBoundingBox"} ELSE {}] :
        rbox \in Boxes, tbox \in {<<>>, Box(2, 2, 2, 2)}, failing \in {"", "R", "T1"}}

OverlapCalls ==
    [fn : {"checkOverlap"}, node1 : {"R", "T1"}, node2 : {"R", "T1"}]

\* checkOverlap(node1, node2) called and returned
CheckOverlap ==
    /\ applied \in OverlapCalls
    /\ returned = <<>>
    /\ returned' = <<checkOverlap(applied.node1, applied.node2)>>
    /\ ContrastFrame

InitResolver ==
    /\ \/ doc \in ResolverDocuments /\ applied \in BackgroundCalls
       \/ doc \in BoxDocuments /\ applied \in OverlapCalls
    /\ returned = <<>>
    /\ currentPage = "P"
    /\ selection = <<>>
    /\ parked = [p \in Pages |-> <<>>]
    /\ viewport = <<>>
    /\ focusLog = <<>>
    /\ inv = <<>>
    /\ clock = Epoch
    /\ pc = "idle"
    /\ options = DEFAULT_SCAN_OPTIONS
    /\ startTime = 0
    /\ roots = <<>>
    /\ idx = 1
    /\ textLayers = <<>>
    /\ timedOut = FALSE
    /\ lastProgressReport = 0
    /\ visited = <<>>
    /\ calls = <<>>
    /\ emitted = <<>>
    /\ result = <<>>

NextResolver ==
    \/ FindBackgroundColor
    \/ CheckOverlap

SpecResolver == InitResolver /\ [][NextResolver]_vars

(***************************************************************************)
(* Properties: vocabulary                                                  *)
(***************************************************************************)
\* the ScanResult, once scanSelection has returned
Returned == pc = "done"
Res == result[1]

Ids(layers) == [i \in 1..Len(layers) |-> layers[i].id]

\* the timeout in force: options.timeout, 30000 ms when absent
Limit == IF options.timeout = Undefined THEN 30000 ELSE options.timeout

\* the time elapsed when the visit of the i-th visited root ended
ElapsedAfter(i) == visited[i].endedAt - startTime

IsFinal(c) == c.final

(***************************************************************************)
(* C1: in every returned ScanResult errorCount + warningCount + passCount  *)
(* = totalScanned = the length of textLayers, errorCount counting the      *)
(* records with issueType contrast-fail, warningCount those with           *)
(* missing-font or no-background, passCount those with none.               *)
(***************************************************************************)
C1_CountsPartition ==
    Returned =>
        LET n == Len(Res.textLayers)
            with(issues) == Cardinality({i \in 1..n : Res.textLayers[i].issueType \in issues})
        IN  /\ Res.totalScanned = n
            /\ Res.errorCount = with({"contrast-fail"})
            /\ Res.warningCount = with({"missing-font", "no-background"})
            /\ Res.passCount = with({"none"})
            /\ Res.errorCount + Res.warningCount + Res.passCount = Res.totalScanned

\* a result with an error, a warning and a pass
C1_Witness ==
    /\ Returned
    /\ Res.errorCount >= 1 /\ Res.warningCount >= 1 /\ Res.passCount >= 1

(***************************************************************************)
(* C2: the issueType of every record is missing-font if the font is        *)
(* missing; otherwise contrast-fail if the ratio fails AA for the record's *)
(* text size; otherwise no-background if no background was resolved;       *)
(* otherwise none.                                                         *)
(***************************************************************************)
C2_IssuePrecedence ==
    \A i \in 1..Len(textLayers) :
        LET r == textLayers[i]
            passes == r.contrastRatio >= (IF r.isLargeText THEN 300 ELSE 450)
        IN  r.issueType =
                IF r.fontInfo.isMissing THEN "missing-font"
                ELSE IF ~passes THEN "contrast-fail"
                ELSE IF r.backgroundColor = <<>> THEN "no-background"
                ELSE "none"

\* a record whose font is missing and whose contrast fails as well
C2_Witness ==
    \E i \in 1..Len(textLayers) :
        /\ textLayers[i].fontInfo.isMissing
        /\ textLayers[i].wcagLevel = "FAIL"
        /\ textLayers[i].issueType = "missing-font"

(***************************************************************************)
(* C3: once the check before a top-level root sees the elapsed time above  *)
(* the timeout, no further root is visited, the records produced so far    *)
(* stay as they are, and the result carries them, their count and          *)
(* timedOut = TRUE.                                                        *)
(***************************************************************************)
C3_Step ==
    /\ (pc = "loop" /\ idx <= Len(roots) /\ clock - startTime > Limit)
        => /\ pc' = "final"
           /\ timedOut'
           /\ textLayers' = textLayers
           /\ visited' = visited
    /\ pc = "final"
        => /\ visited' = visited
           /\ result'[1].textLayers = textLayers
           /\ result'[1].totalScanned = Len(textLayers)
           /\ result'[1].timedOut = timedOut

C3_TimeoutStops == [][C3_Step]_vars

\* a scan under the default timeout cut short with records in hand
C3_Witness ==
    /\ Returned
    /\ options.timeout = Undefined
    /\ Res.timedOut
    /\ Len(visited) < Len(roots)
    /\ Res.totalScanned >= 1

(***************************************************************************)
(* C4, as stated: whenever the elapsed time exceeds the timeout when the   *)
(* visit of a top-level root ends, the last or only root included, the     *)
(* result has timedOut = TRUE.                                             *)
(***************************************************************************)
C4_CheckedAfterEachRoot ==
    Returned =>
        ((\E i \in 1..Len(visited) : ElapsedAfter(i) > Limit) => Res.timedOut)

(***************************************************************************)
(* C4, amended: the timeout is checked only before each root.  An overrun  *)
(* at the end of a visit that is followed by another root gives timedOut = *)
(* TRUE; a scan that visited all its roots has timedOut = FALSE, whatever  *)
(* the last visit took.                                                    *)
(***************************************************************************)
C4_CheckedBeforeEachRoot ==
    Returned =>
        /\ (\E i \in 1..Len(visited) : i < Len(roots) /\ ElapsedAfter(i) > Limit)
              => Res.timedOut
        /\ Len(visited) = Len(roots) => ~Res.timedOut

\* an overrun during the first of two roots, found by the check before the second
C4_Witness ==
    /\ Returned
    /\ Len(roots) = 2
    /\ Len(visited) = 1
    /\ ElapsedAfter(1) > Limit
    /\ Res.timedOut

(***************************************************************************)
(* C5: two non-final progress callbacks of a scan are more than 100 ms     *)
(* apart, and a returned scan has made exactly one final callback, its     *)
(* last, also when it timed out or visited no root; no final callback is   *)
(* made earlier.                                                           *)
(***************************************************************************)
C5_Throttle ==
    /\ \A i, j \in 1..Len(calls) :
          (i < j /\ ~IsFinal(calls[i]) /\ ~IsFinal(calls[j]))
              => calls[j].at - calls[i].at > 100
    /\ Returned =>
          /\ Len(calls) >= 1
          /\ IsFinal(calls[Len(calls)])
          /\ Cardinality({i \in 1..Len(calls) : IsFinal(calls[i])}) = 1
          /\ \A i \in 1..Len(visited) : visited[i].endedAt <= calls[Len(calls)].at
    /\ ~Returned => \A i \in 1..Len(calls) : ~IsFinal(calls[i])

\* a scan of two roots whose second visit ended within 100 ms of the first
\* callback: one throttled callback and the final one
C5_Witness ==
    /\ Returned
    /\ Len(visited) = 2
    /\ visited[2].endedAt - visited[1].endedAt <= 100
    /\ Len(calls) = 2

(***************************************************************************)
(* C6: every progress callback receives the number of records accumulated  *)
(* at the moment of the call, the values never decrease, the final value   *)
(* is the totalScanned of the result, and the SCAN_PROGRESS events carry   *)
(* these values.                                                           *)
(***************************************************************************)
\* the events since the latest SCAN_STARTED, that one included
ScanEvents ==
    LET starts == {i \in 1..Len(emitted) : emitted[i].type = "SCAN_STARTED"}
    IN  IF starts = {} THEN <<>>
        ELSE SubSeq(emitted, CHOOSE i \in starts : \A j \in starts : j <= i, Len(emitted))

ProgressEvents == SelectSeq(ScanEvents, LAMBDA e : e.type = "SCAN_PROGRESS")

C6_Values ==
    /\ \A i, j \in 1..Len(calls) : i < j => calls[i].scanned <= calls[j].scanned
    /\ Returned => calls[Len(calls)].scanned = Res.totalScanned
    /\ Len(ProgressEvents) = Len(calls)
    /\ \A i \in 1..Len(calls) : ProgressEvents[i].payload = calls[i].scanned

C6_Step ==
    Len(calls') > Len(calls) => calls'[Len(calls')].scanned = Len(textLayers')

C6_ProgressCounts == []C6_Values /\ [][C6_Step]_vars

\* the reported count grew between two callbacks
C6_Witness ==
    /\ Returned
    /\ Len(calls) >= 2
    /\ calls[1].scanned >= 1
    /\ calls[1].scanned < calls[Len(calls)].scanned

(***************************************************************************)
(* Properties: the document as the claims describe it                      *)
(***************************************************************************)
\* the scan roots: the selection when there is one, else the page's children
RootsOf == IF selection # <<>> THEN selection ELSE node(currentPage).children

\* depth-first pre-order of the forest whose trees stand on the stack, the
\* subtrees of hidden nodes left out unless hiddenToo
RECURSIVE PreOrder(_, _)
PreOrder(stack, hiddenToo) ==
    IF stack = <<>> THEN <<>>
    ELSE IF ~hiddenToo /\ ~node(Head(stack)).visible
         THEN PreOrder(Tail(stack), hiddenToo)
         ELSE <<Head(stack)>> \o PreOrder(node(Head(stack)).children \o Tail(stack), hiddenToo)

NonBlankText(id) ==
    /\ node(id).type = "TEXT"
    /\ \E i \in 1..Len(node(id).characters) : node(id).characters[i] \notin WhiteSpace

BlankText(id) == node(id).type = "TEXT" /\ ~NonBlankText(id)

\* the node itself and its ancestors
RECURSIVE PathUp(_)
PathUp(id) == IF id = "" THEN {} ELSE {id} \cup PathUp(node(id).parent)

\* the node lies in the subtree of a not-visible node at or below a scan root
HiddenInScan(id) ==
    \E k \in 1..Len(RootsOf) : \E h \in PathUp(id) :
        RootsOf[k] \in PathUp(h) /\ ~node(h).visible

HasSolidFill(id) ==
    /\ node(id).type # "PAGE"
    /\ node(id).fills # MixedFills
    /\ \E i \in 1..Len(node(id).fills) :
          node(id).fills[i].type = "SOLID" /\ node(id).fills[i].visible

NoAncestorFill(id) == \A a \in PathUp(id) \ {id} : ~HasSolidFill(a)

Intersect(b1, b2) ==
    /\ b1.x < b2.x + b2.width /\ b2.x < b1.x + b1.width
    /\ b1.y < b2.y + b2.height /\ b2.y < b1.y + b1.height

\* a sibling below the text in the layer order that overlaps it and has a
\* solid fill
NoOccludingSibling(id) ==
    LET siblings == node(node(id).parent).children
    IN  \A i, j \in 1..Len(siblings) :
            (siblings[j] = id /\ i < j) =>
                ~(/\ HasSolidFill(siblings[i])
                  /\ node(siblings[i]).box # <<>> /\ node(id).box # <<>>
                  /\ "absoluteBoundingBox" \notin node(siblings[i]).throws
                  /\ Intersect(node(siblings[i]).box[1], node(id).box[1]))

\* the page's first background when that is a visible solid, else absent
PageFirstBackground ==
    LET bgs == node(currentPage).backgrounds
    IN  IF bgs # <<>> /\ bgs[1].type = "SOLID" /\ bgs[1].visible
        THEN <<[r |-> bgs[1].color.r, g |-> bgs[1].color.g, b |-> bgs[1].color.b,
                a |-> IF bgs[1].opacity = Undefined THEN 1000 ELSE bgs[1].opacity]>>
        ELSE <<>>

(***************************************************************************)
(* C7, as stated: the record ids of a scan that did not time out are the   *)
(* depth-first pre-order listing of all text nodes with non-blank content  *)
(* under the scan roots.                                                   *)
(***************************************************************************)
C7_AllTextUnderRoots ==
    (Returned /\ ~Res.timedOut) =>
        Ids(Res.textLayers) = SelectSeq(PreOrder(RootsOf, TRUE), NonBlankText)

(***************************************************************************)
(* C7, amended: the record ids of a scan that did not time out are the     *)
(* depth-first pre-order listing of the text nodes with non-blank content  *)
(* that the traversal reaches: all those under the scan roots when         *)
(* includeHiddenLayers is true, and otherwise those that are neither       *)
(* not-visible nor in the subtree of a not-visible node at or below a      *)
(* root.  A blank text node produces no record.                            *)
(***************************************************************************)
C7_PreOrderOfReached ==
    (Returned /\ ~Res.timedOut) =>
        /\ Ids(Res.textLayers) =
              SelectSeq(PreOrder(RootsOf, options.includeHiddenLayers), NonBlankText)
        /\ \A i \in 1..Len(Res.textLayers) : ~BlankText(Res.textLayers[i].id)

\* a complete scan of a page that holds a blank text node before two others
C7_Witness ==
    /\ Returned /\ ~Res.timedOut
    /\ selection = <<>>
    /\ Len(Res.textLayers) >= 2
    /\ \E i \in 1..Len(PreOrder(RootsOf, TRUE)) : BlankText(PreOrder(RootsOf, TRUE)[i])

(***************************************************************************)
(* C8: with includeHiddenLayers false no record belongs to a not-visible   *)
(* node or to a node in the subtree of a not-visible node at or below a    *)
(* scan root; with includeHiddenLayers true such text nodes are recorded   *)
(* like the visible ones.                                                  *)
(***************************************************************************)
C8_HiddenLayers ==
    Returned =>
        /\ ~options.includeHiddenLayers =>
              \A i \in 1..Len(Res.textLayers) : ~HiddenInScan(Res.textLayers[i].id)
        /\ (options.includeHiddenLayers /\ ~Res.timedOut) =>
              Ids(Res.textLayers) = SelectSeq(PreOrder(RootsOf, TRUE), NonBlankText)

\* a scan without hidden layers of a page whose hidden frame holds text
C8_Witness ==
    /\ Returned /\ ~Res.timedOut
    /\ ~options.includeHiddenLayers
    /\ Len(Res.textLayers) >= 1
    /\ \E id \in NodeIds :
          /\ NonBlankText(id) /\ node(id).visible /\ HiddenInScan(id)

(***************************************************************************)
(* C9: a record whose node has no ancestor fill and no occluding sibling   *)
(* has the page's first background when that is a visible solid and no     *)
(* background otherwise; a record without background has its contrast      *)
(* ratio computed against opaque white and the issue no-background, unless *)
(* the font is missing or that ratio fails AA.                             *)
(***************************************************************************)
C9_PageFallback ==
    \A i \in 1..Len(textLayers) :
        LET r == textLayers[i]
            white == [r |-> 1000, g |-> 1000, b |-> 1000, a |-> 1000]
        IN  /\ (NoAncestorFill(r.id) /\ NoOccludingSibling(r.id))
                  => r.backgroundColor = PageFirstBackground
            /\ r.backgroundColor = <<>> =>
                  /\ r.contrastRatio = calculateContrastRatioWithAlpha(r.textColor, white)
                  /\ r.issueType =
                        IF r.fontInfo.isMissing THEN "missing-font"
                        ELSE IF r.contrastRatio < (IF r.isLargeText THEN 300 ELSE 450)
                             THEN "contrast-fail"
                        ELSE "no-background"

\* a record for which neither an ancestor, a sibling nor the page gave a colour
C9_Witness ==
    \E i \in 1..Len(textLayers) :
        /\ NoAncestorFill(textLayers[i].id) /\ NoOccludingSibling(textLayers[i].id)
        /\ PageFirstBackground = <<>>
        /\ textLayers[i].backgroundColor = <<>>
        /\ textLayers[i].issueType = "no-background"

(***************************************************************************)
(* C10: a failing provider access made while the font or the background of *)
(* a text node is resolved never aborts the scan: no scan ends in an error *)
(* instead of a ScanResult.                                                *)
(***************************************************************************)
C10_FailuresDegrade ==
    /\ pc # "failed"
    /\ \A i \in 1..Len(emitted) : emitted[i].type # "ERROR"

(***************************************************************************)
(* C11: when loading the font a text node resolves to fails, the node is   *)
(* still recorded, with isMissing = TRUE and the issue missing-font, and   *)
(* the text nodes after it in traversal order are visited and recorded.    *)
(***************************************************************************)
Reached == SelectSeq(PreOrder(RootsOf, options.includeHiddenLayers), NonBlankText)

C11_FontLoadFailure ==
    /\ \A i \in 1..Len(textLayers) :
          LET info == textLayers[i].fontInfo
              loads == [family |-> info.fontFamily, style |-> info.fontStyle] \in doc.fonts
          IN  /\ info.isMissing = ~loads
              /\ ~loads => textLayers[i].issueType = "missing-font"
    /\ (Returned /\ ~Res.timedOut) =>
          \A k \in 1..Len(Reached) :
              /\ k <= Len(Res.textLayers)
              /\ Res.textLayers[k].id = Reached[k]

\* a record with a missing font followed by the record of a later text node
C11_Witness ==
    /\ Returned
    /\ \E i, j \in 1..Len(Res.textLayers) :
          /\ i < j
          /\ Res.textLayers[i].fontInfo.isMissing
          /\ Res.textLayers[i].issueType = "missing-font"
          /\ \E k \in 1..Len(Reached) : Reached[k] = Res.textLayers[j].id

(***************************************************************************)
(* C12: when scanSelection throws while a SCAN_REQUEST, a RESCAN_REQUEST   *)
(* or the auto-scan is served, exactly one ERROR event with a message is   *)
(* emitted for that scan and no SCAN_RESULT; the handler survives, and a   *)
(* later request is served from SCAN_STARTED on, to its SCAN_RESULT when   *)
(* that scan does not fail.                                                *)
(***************************************************************************)
CountOf(events, type) == Cardinality({i \in 1..Len(events) : events[i].type = type})

C12_Events ==
    /\ pc = "failed" =>
          /\ ScanEvents[1].type = "SCAN_STARTED"
          /\ ScanEvents[Len(ScanEvents)].type = "ERROR"
          /\ ScanEvents[Len(ScanEvents)].payload # ""
          /\ CountOf(ScanEvents, "ERROR") = 1
          /\ CountOf(ScanEvents, "SCAN_RESULT") = 0
          /\ result = <<>>
    /\ pc = "done" =>
          /\ ScanEvents[1].type = "SCAN_STARTED"
          /\ ScanEvents[Len(ScanEvents)].type = "SCAN_RESULT"
          /\ CountOf(ScanEvents, "ERROR") = 0
          /\ CountOf(ScanEvents, "SCAN_RESULT") = 1

C12_Step ==
    /\ (pc = "visit" /\ pc' = "failed") =>
          /\ Len(emitted') = Len(emitted) + 1
          /\ SubSeq(emitted', 1, Len(emitted)) = emitted
          /\ emitted'[Len(emitted')].type = "ERROR"
    /\ (pc = "failed" /\ pc' # "failed") =>
          /\ pc' = "loop"
          /\ emitted' = Append(emitted, [type |-> "SCAN_STARTED", payload |-> 0])
          /\ textLayers' = <<>> /\ ~timedOut' /\ idx' = 1

C12_ErrorReported == []C12_Events /\ [][C12_Step]_vars

\* a scan that completed after an earlier scan of the session had failed
C12_Witness ==
    /\ pc = "done"
    /\ CountOf(emitted, "ERROR") = 1
    /\ CountOf(emitted, "SCAN_STARTED") = 2
    /\ CountOf(emitted, "SCAN_RESULT") = 1

(***************************************************************************)
(* C13: focusOnNode never throws.  It returns success = FALSE with a       *)
(* message when the id resolves to no node, else when the node has no      *)
(* bounding-box capability, else when its bounding box is null, and when a *)
(* provider call it makes raises; the FOCUS_NODE handler emits exactly one *)
(* ERROR for each such failure and for each empty or non-string nodeId.    *)
(***************************************************************************)
\* the page among the node's ancestors
PageOf(id) == CHOOSE p \in PathUp(id) : node(p).type = "PAGE"

\* what the claim makes of a call with a string id, given the calls that raise
Verdict(id, raising) ==
    IF "getNodeByIdAsync" \in raising THEN Unexpected
    ELSE IF id \notin DOMAIN doc.nodes THEN NotFound
    ELSE IF node(id).type = "PAGE" THEN NotFocusable
    ELSE IF "absoluteBoundingBox" \in raising THEN Unexpected
    ELSE IF node(id).box = <<>> THEN NoBounds
    ELSE IF "currentPage" \in raising /\ PageOf(id) # currentPage THEN Unexpected
    ELSE IF raising \cap {"scrollAndZoomIntoView", "selection"} # {} THEN Unexpected
    ELSE ""

C13_Step ==
    LET call == focusLog'[1]
        id == call.payload.nodeId
        error == [type |-> "ERROR", payload |-> Verdict(id, call.raising)]
    IN  IF call.payload.type # "string" \/ id = ""
        THEN /\ call.result = <<>>
             /\ emitted' = Append(emitted, [type |-> "ERROR", payload |-> InvalidNodeId])
        ELSE /\ Len(call.result) = 1
             /\ call.result[1].success = (Verdict(id, call.raising) = "")
             /\ call.result[1].error = Verdict(id, call.raising)
             /\ emitted' = IF call.result[1].success THEN emitted ELSE Append(emitted, error)

C13_FocusFailures == [][C13_Step]_vars

\* a focus on a node without position, answered by its ERROR
C13_Witness ==
    /\ focusLog # <<>>
    /\ focusLog[1].raising = {}
    /\ focusLog[1].result = <<[success |-> FALSE, error |-> NoBounds]>>
    /\ emitted # <<>>
    /\ emitted[Len(emitted)] = [type |-> "ERROR", payload |-> NoBounds]

(***************************************************************************)
(* C14: after focusOnNode returned success = TRUE for a node, the current  *)
(* page is the page that contains the node (switched exactly when it was   *)
(* another one), the viewport command was issued for the node and the      *)
(* selection is exactly that node.                                         *)
(***************************************************************************)
C14_Step ==
    (focusLog' # <<>> /\ focusLog'[1].result = <<[success |-> TRUE, error |-> ""]>>) =>
        LET id == focusLog'[1].payload.nodeId
        IN  /\ currentPage' = PageOf(id)
            /\ viewport' = <<id>>
            /\ selection' = <<id>>
            /\ doc' = doc

C14_FocusSuccess == [][C14_Step]_vars

\* a focus that switched from a page with a selection to the node's page
C14_Witness ==
    /\ focusLog # <<>>
    /\ focusLog[1].result = <<[success |-> TRUE, error |-> ""]>>
    /\ focusLog[1].payload.nodeId = "Q1"
    /\ currentPage = "Q"
    /\ selection = <<"Q1">>
    /\ viewport = <<"Q1">>
    /\ parked["P"] # <<>>

(***************************************************************************)
(* C15: two scanSelection invocations that overlap share no mutable state: *)
(* each returns the records of its own traversal in its own order, with    *)
(* its own counts and its own timedOut flag, as it would when run alone on *)
(* the same document (the roots it visited before its own timeout check    *)
(* stopped it).                                                            *)
(***************************************************************************)
\* what one invocation alone makes of the next root, after the roots before
Continue(before, root, opts) ==
    IF before.threw THEN Raise ELSE scanNodeRecursive(root, before.value, opts)

\* the records one invocation alone has after the first n of its roots
RECURSIVE ScanPrefix(_, _, _)
ScanPrefix(rs, n, opts) ==
    IF n = 0 THEN Return(<<>>)
    ELSE Continue(ScanPrefix(rs, n - 1, opts), rs[n], opts)

C15_Own(k) ==
    LET me == inv[k]
        alone == ScanPrefix(me.roots, me.idx - 1, me.options)
    IN  /\ me.pc \in {"loop", "final", "done"} =>
              /\ ~alone.threw
              /\ me.textLayers = alone.value
              /\ me.timedOut => (me.pc # "loop" /\ me.idx <= Len(me.roots))
        /\ me.pc = "done" =>
              LET res == me.result[1]
                  n == Len(alone.value)
                  count(issues) ==
                      Cardinality({i \in 1..n : alone.value[i].issueType \in issues})
              IN  /\ res.textLayers = alone.value
                  /\ res.totalScanned = n
                  /\ res.errorCount = count({"contrast-fail"})
                  /\ res.warningCount = count({"missing-font", "no-background"})
                  /\ res.passCount = count({"none"})
                  /\ res.timedOut = (me.idx <= Len(me.roots))
        /\ me.pc = "failed" => ScanPrefix(me.roots, me.idx, me.options).threw

C15_Step ==
    \A k \in Invocations :
        (inv'[k].timedOut /\ ~inv[k].timedOut) =>
            clock - inv[k].startTime > (IF inv[k].options.timeout = Undefined THEN 30000
                                        ELSE inv[k].options.timeout)

Scanning == pc \in {"loop", "visit", "final"}

C16_Step ==
    (Scanning \/ Scanning')
        => /\ doc' = doc
           /\ currentPage' = currentPage
           /\ selection' = selection

C16_Untouched ==
    (Scanning \/ pc \in {"done", "failed"}) => roots = RootsOf

C16_DocumentUnchanged == []C16_Untouched /\ [][C16_Step]_vars

C16_Witness ==
    /\ pc = "done"
    /\ selection # <<>>
    /\ Res.timedOut
    /\ Res.totalScanned >= 1

(***************************************************************************)
(* C17 -- every scan leaves Running, given that every provider call        *)
(* returns or fails, and ends in exactly one of three ways: Completed      *)
(* (every root visited, timedOut false, one SCAN_RESULT), TimedOut (stopped *)
(* before a root, timedOut true, one SCAN_RESULT) or Failed (the           *)
(* invocation threw, no result, one ERROR); so every SCAN_STARTED is       *)
(* followed by exactly one SCAN_RESULT or ERROR of that scan.              *)
(***************************************************************************)
Completed == pc = "done" /\ ~Res.timedOut /\ Len(visited) = Len(roots)
TimedOut == pc = "done" /\ Res.timedOut /\ Len(visited) < Len(roots)
Failed == pc = "failed" /\ result = <<>>

Closings == CountOf(ScanEvents, "SCAN_RESULT") + CountOf(ScanEvents, "ERROR")

C17_Ends ==
    /\ pc = "done" =>
          /\ Completed \/ TimedOut
          /\ CountOf(ScanEvents, "SCAN_RESULT") = 1
          /\ CountOf(ScanEvents, "ERROR") = 0
          /\ ScanEvents[Len(ScanEvents)].type = "SCAN_RESULT"
    /\ pc = "failed" =>
          /\ Failed
          /\ CountOf(ScanEvents, "ERROR") = 1
          /\ CountOf(ScanEvents, "SCAN_RESULT") = 0
          /\ ScanEvents[Len(ScanEvents)].type = "ERROR"
    /\ Scanning => ScanEvents # <<>> /\ Closings = 0

LevelReturned == applied \in LevelCalls /\ returned # <<>>

C18_Levels ==
    LevelReturned =>
        LET r == applied.contrastRatio
            v == returned[1]
        IN  IF applied.isLarge
            THEN /\ v = "AAA" <=> r >= 450
                 /\ v = "AA-Large" <=> (300 <= r /\ r < 450)
                 /\ v = "FAIL" <=> r < 300
                 /\ v # "AA"
            ELSE /\ v = "AAA" <=> r >= 700
                 /\ v = "AA" <=> (450 <= r /\ r < 700)
                 /\ v = "FAIL" <=> r < 450
                 /\ v # "AA-Large"

C18_Witness ==
    /\ LevelReturned
    /\ applied.contrastRatio = 450
    /\ ~applied.isLarge
    /\ returned = <<"AA">>

(***************************************************************************)
(* C19 -- isLargeText is true exactly when the weight is at least 700 and  *)
(* the size at least 18.67 px, or the weight is below 700 and the size at  *)
(* least 24 px; a size exactly at its threshold is large, and weight 600   *)
(* at 18.67 px is not.  Sizes are in hundredths of a pixel.                *)
(***************************************************************************)
LargeReturned == applied \in LargeCalls /\ returned # <<>>

C19_LargeText ==
    LargeReturned =>
        LET s == applied.fontSize
            w == applied.fontWeight
        IN  /\ returned[1] = ((w >= 700 /\ s >= 1867) \/ (w < 700 /\ s >= 2400))
            /\ (w = 600 /\ s = 1867) => returned[1] = FALSE
            /\ (w = 700 /\ s = 1867) => returned[1] = TRUE
            /\ (w = 400 /\ s = 2400) => returned[1] = TRUE

C19_Witness ==
    /\ LargeReturned
    /\ applied.fontWeight = 600
    /\ applied.fontSize = 1867
    /\ returned = <<FALSE>>

OptionVariants(opts) ==
    {[opts EXCEPT !.minContrastRatio = m, !.checkLargeText = c] :
        m \in {300, 450, 700}, c \in BOOLEAN}

C21_Step ==
    pc = "visit" =>
        \A other \in OptionVariants(options) :
            LET alone == scanNodeRecursive(roots[idx], textLayers, other)
            IN  /\ pc' = "failed" <=> alone.threw
                /\ pc' = "loop" => ~alone.threw /\ textLayers' = alone.value

C21_Counts ==
    Returned =>
        /\ Res.textLayers = textLayers
        /\ Res.errorCount = ErrorCount(textLayers)
        /\ Res.warningCount = WarningCount(textLayers)
        /\ Res.passCount = PassCount(textLayers)

C21_OptionsIgnored == []C21_Counts /\ [][C21_Step]_vars

C21_Witness ==
    /\ Returned
    /\ options.minContrastRatio = 700
    /\ ~options.checkLargeText
    /\ \E i \in 1..Len(Res.textLayers) :
          /\ Res.textLayers[i].isLargeText
          /\ Res.textLayers[i].contrastRatio < 450
          /\ Res.textLayers[i].issueType = "none"
          /\ Res.textLayers[i].wcagLevel = "AA-Large"

(***************************************************************************)
(* C22 -- calculateContrastRatio gives the same ratio with its arguments   *)
(* exchanged, exactly 1 for two equal colours and never less than 1; the   *)
(* contrastRatio of a record comes from it, so it is at least 1 and the    *)
(* initial 0 of processTextNode is never kept.  Ratios are in hundredths.  *)
(***************************************************************************)
RatioReturned == applied \in RatioCalls /\ returned # <<>>
RecordReturned == applied \in RecordCalls /\ returned # <<>>

C22_Ratio ==
    /\ RatioReturned =>
          /\ returned[1] = calculateContrastRatio(applied.background, applied.foreground)
          /\ applied.foreground = applied.background => returned[1] = 100
          /\ returned[1] >= 100
    /\ RecordReturned => returned[1].contrastRatio >= 100

C22_Witness ==
    /\ RatioReturned
    /\ applied.foreground = Black
    /\ applied.background = White
    /\ returned = <<2100>>

(***************************************************************************)
(* The background of a text node, in the terms of the claims               *)
(***************************************************************************)
\* the first visible solid paint of a node's fills in declaration order, its
\* alpha the paint's opacity; <<>> when there is none or the fills are mixed
FirstFill(id) ==
    LET fs == node(id).fills
    IN  IF node(id).type \in {"PAGE", "DOCUMENT"} \/ fs = MixedFills THEN <<>>
        ELSE LET shown == {i \in 1..Len(fs) : fs[i].type = "SOLID" /\ fs[i].visible}
             IN  IF shown = {} THEN <<>>
                 ELSE LET f == fs[CHOOSE i \in shown : \A j \in shown : i <= j]
                      IN  <<[r |-> f.color.r, g |-> f.color.g, b |-> f.color.b,
                             a |-> IF f.opacity = Undefined THEN 1000 ELSE f.opacity]>>

\* the ancestors of a node below the page, the parent first
RECURSIVE AncestorsBelowPage(_)
AncestorsBelowPage(id) ==
    LET p == node(id).parent
    IN  IF p = "" \/ node(p).type \in {"PAGE", "DOCUMENT"} THEN <<>>
        ELSE <<p>> \o AncestorsBelowPage(p)

\* the positions, in the parent's children, of the siblings drawn behind the
\* node that overlap it and expose a visible solid fill
Behind(id) ==
    LET siblings == node(node(id).parent).children
    IN  {i \in 1..Len(siblings) :
            /\ \E j \in 1..Len(siblings) : siblings[j] = id /\ i < j
            /\ FirstFill(siblings[i]) # <<>>
            /\ node(siblings[i]).box # <<>> /\ node(id).box # <<>>
            /\ "absoluteBoundingBox" \notin node(siblings[i]).throws
            /\ Intersect(node(siblings[i]).box[1], node(id).box[1])}

\* the fill of the nearest of them
NearestBehind(id) ==
    FirstFill(node(node(id).parent).children[
        CHOOSE i \in Behind(id) : \A j \in Behind(id) : j <= i])

BackgroundReturned == applied \in BackgroundCalls /\ returned # <<>>

(***************************************************************************)
(* C23 -- findBackgroundColor walks the ancestors below the page from the  *)
(* parent upward and returns the first visible solid fill of the nearest   *)
(* ancestor that has one; the parent's own fill wins over a sibling behind *)
(* the text, the sibling is taken only when the parent has no such fill    *)
(* and then wins over the fill of a farther ancestor; fills of the page    *)
(* are not looked at, its background is used when nothing was found.       *)
(***************************************************************************)
C23_Precedence ==
    BackgroundReturned =>
        LET t == applied.node
            chain == AncestorsBelowPage(t)
            filled == {k \in 1..Len(chain) : FirstFill(chain[k]) # <<>>}
            occluded == chain # <<>> /\ Behind(t) # {}
        IN  /\ 1 \in filled => returned[1] = FirstFill(chain[1])
            /\ (filled # {} /\ ~occluded) =>
                  returned[1] = FirstFill(chain[CHOOSE k \in filled : \A j \in filled : k <= j])
            /\ (occluded /\ 1 \notin filled) => returned[1] = NearestBehind(t)
            /\ (filled = {} /\ ~occluded) => returned[1] = PageFirstBackground

\* the parent's own fill returned although a filled layer lies behind the text
C23_Witness ==
    /\ BackgroundReturned
    /\ applied.node = "T1"
    /\ FirstFill("A") # <<>>
    /\ Behind("T1") # {}
    /\ NearestBehind("T1") # FirstFill("A")
    /\ returned[1] = FirstFill("A")

\* the layer behind the text returned although a farther ancestor has a fill
C23_NearerWitness ==
    /\ BackgroundReturned
    /\ applied.node = "T2"
    /\ FirstFill("B") = <<>>
    /\ FirstFill("A") # <<>>
    /\ Behind("T2") # {}
    /\ returned[1] = NearestBehind("T2")
    /\ returned[1] # FirstFill("A")

(***************************************************************************)
(* C24 -- a text node with a layer behind it among its siblings that       *)
(* overlaps it and exposes a visible solid fill, and with no such fill on  *)
(* its ancestors below the page, gets the fill of the nearest such layer   *)
(* as its background, also when the text is a direct child of the page.    *)
(***************************************************************************)
C24_SiblingBackground ==
    BackgroundReturned =>
        LET t == applied.node
            chain == AncestorsBelowPage(t)
        IN  (Behind(t) # {} /\ \A k \in 1..Len(chain) : FirstFill(chain[k]) = <<>>)
                => returned[1] = NearestBehind(t)

\* the same for the text nodes that have a parent below the page
C24_BelowPage ==
    BackgroundReturned =>
        LET t == applied.node
            chain == AncestorsBelowPage(t)
        IN  (/\ chain # <<>>
             /\ Behind(t) # {}
             /\ \A k \in 1..Len(chain) : FirstFill(chain[k]) = <<>>)
                => returned[1] = NearestBehind(t)

\* a text on the page over a filled frame, resolved to the page background
C24_PageChild ==
    /\ BackgroundReturned
    /\ applied.node = "T3"
    /\ Behind("T3") # {}
    /\ returned[1] = PageFirstBackground
    /\ returned[1] # NearestBehind("T3")

(***************************************************************************)
(* C25 -- checkOverlap(a, b) is true exactly when both nodes have bounds   *)
(* and a.x < b.x + b.width, b.x < a.x + a.width, a.y < b.y + b.height and  *)
(* b.y < a.y + a.height: rectangles that only touch do not overlap; a node *)
(* without bounds or with a failing bounds access gives false; and the     *)
(* result is the same with a and b exchanged.                              *)
(***************************************************************************)
OverlapReturned == applied \in OverlapCalls /\ returned # <<>>

HasBounds(id) ==
    "absoluteBoundingBox" \notin node(id).throws /\ node(id).box # <<>>

C25_Overlap ==
    OverlapReturned =>
        LET n1 == applied.node1
            n2 == applied.node2
            a == node(n1).box[1]
            b == node(n2).box[1]
        IN  /\ returned[1] \in BOOLEAN
            /\ returned[1] <=>
                  /\ HasBounds(n1) /\ HasBounds(n2)
                  /\ a.x < b.x + b.width /\ b.x < a.x + a.width
                  /\ a.y < b.y + b.height /\ b.y < a.y + a.height
            /\ returned[1] = checkOverlap(n2, n1)

\* R ends where T1 begins: the two share an edge and do not overlap
C25_Witness ==
    /\ OverlapReturned
    /\ applied.node1 = "R" /\ applied.node2 = "T1"
    /\ HasBounds("R") /\ HasBounds("T1")
    /\ node("R").box[1].x + node("R").box[1].width = node("T1").box[1].x
    /\ node("R").box[1].y = node("T1").box[1].y
    /\ node("R").box[1].height > 0
    /\ returned = <<FALSE>>

(***************************************************************************)
(* C26 -- for a style name that is one of the listed weight keywords, in   *)
(* any letter case, the derived weight is the value listed for it; it is   *)
(* 400 for a name without keyword; and it is always one of 100, 200, ...,  *)
(* 900.                                                                    *)
(***************************************************************************)
WeightReturned == applied \in WeightCalls /\ returned # <<>>

C26_KeywordWeights ==
    WeightReturned =>
        /\ \A k \in 1..Len(Keywords) :
              toLowerCase(applied.style) = toLowerCase(Keywords[k].name)
                  => returned[1] = Keywords[k].weight
        /\ applied.style \in PlainStyles => returned[1] = 400
        /\ returned[1] \in {100 * n : n \in 1..9}

\* the same without the four keywords that contain another keyword tested
\* before them: there the weight is that of the contained keyword
C26_FirstMatch ==
    WeightReturned =>
        LET low == toLowerCase(applied.style)
        IN  /\ \A k \in 1..Len(Keywords) :
                  low = toLowerCase(Keywords[k].name) =>
                      returned[1] =
                          IF Keywords[k].weight = 600 THEN 700
                          ELSE IF Keywords[k].weight = 200 THEN 300
                          ELSE Keywords[k].weight
            /\ applied.style \in PlainStyles => returned[1] = 400
            /\ returned[1] \in {100 * n : n \in 1..9}

\* SemiBold derived as bold
C26_SemiBold ==
    /\ WeightReturned
    /\ applied.style = <<"S","e","m","i","B","o","l","d">>
    /\ returned = <<700>>

(***************************************************************************)
(* C27 -- within a scan SCAN_STARTED comes before every SCAN_PROGRESS and  *)
(* before the SCAN_RESULT, every SCAN_PROGRESS comes before the            *)
(* SCAN_RESULT, and there is at most one SCAN_RESULT per SCAN_STARTED.  On *)
(* plugin open PLUGIN_READY comes before the SCAN_STARTED of the           *)
(* auto-scan, and the auto-scan starts only when something is selected.    *)
(***************************************************************************)
\* the index of the latest SCAN_STARTED before position i, 0 when none
StartBefore(i) ==
    LET starts == {j \in 1..(i - 1) : emitted[j].type = "SCAN_STARTED"}
    IN  IF starts = {} THEN 0 ELSE CHOOSE j \in starts : \A k \in starts : k <= j

C27_Events ==
    /\ \A i \in 1..Len(emitted) :
          emitted[i].type \in {"SCAN_PROGRESS", "SCAN_RESULT"} =>
              /\ StartBefore(i) > 0
              /\ \A j \in StartBefore(i)..(i - 1) : emitted[j].type # "SCAN_RESULT"
    /\ \A i \in 1..Len(emitted) :
          emitted[i].type = "SCAN_STARTED" =>
              \E j \in 1..(i - 1) : emitted[j].type = "PLUGIN_READY"

C27_Step ==
    pc = "start" =>
        /\ Len(emitted') > Len(emitted)
        /\ emitted'[Len(emitted) + 1].type = "PLUGIN_READY"
        /\ IF Len(selection) > 0
           THEN /\ Len(emitted') = Len(emitted) + 2
                /\ emitted'[Len(emitted) + 2].type = "SCAN_STARTED"
                /\ pc' = "loop"
           ELSE /\ Len(emitted') = Len(emitted) + 1
                /\ pc' = "idle"

C27_EventOrder == []C27_Events /\ [][C27_Step]_vars

\* the auto-scan of a selection of two roots, over with a progress event
\* after its first root
C27_Witness ==
    /\ pc = "done"
    /\ Len(emitted) = 6
    /\ emitted[1].type = "PLUGIN_READY" /\ emitted[1].payload = 2
    /\ emitted[2].type = "SCAN_STARTED"
    /\ emitted[3].type = "SCAN_PROGRESS"
    /\ emitted[4].type = "SCAN_PROGRESS"
    /\ emitted[5].type = "SCAN_PROGRESS"
    /\ emitted[6].type = "SCAN_RESULT"

(***************************************************************************)
(* C28 -- in every record hasAccessibilityIssue is TRUE exactly when       *)
(* issueType is not none, and issueType is one of none, contrast-fail,     *)
(* missing-font, no-background; so every record of a result is counted in  *)
(* exactly one of errorCount, warningCount and passCount.                  *)
(***************************************************************************)
IssueTypes == {"none", "contrast-fail", "missing-font", "no-background"}

\* the counters a record adds to
CountedIn(r) ==
    {c \in {"errorCount", "warningCount", "passCount"} :
        \/ c = "errorCount" /\ r.issueType = "contrast-fail"
        \/ c = "warningCount" /\ r.issueType \in {"missing-font", "no-background"}
        \/ c = "passCount" /\ r.issueType = "none"}

C28_IssueFlag ==
    /\ \A i \in 1..Len(textLayers) :
          LET r == textLayers[i]
          IN  /\ r.hasAccessibilityIssue \in BOOLEAN
              /\ r.hasAccessibilityIssue = (r.issueType # "none")
              /\ r.issueType \in IssueTypes
              /\ Cardinality(CountedIn(r)) = 1
    /\ Returned =>
          LET n == Len(Res.textLayers)
              flagged == {i \in 1..n : Res.textLayers[i].hasAccessibilityIssue}
          IN  /\ Res.passCount = n - Cardinality(flagged)
              /\ Res.errorCount + Res.warningCount = Cardinality(flagged)
              /\ Res.errorCount =
                    Cardinality({i \in 1..n : CountedIn(Res.textLayers[i]) = {"errorCount"}})
              /\ Res.warningCount =
                    Cardinality({i \in 1..n : CountedIn(Res.textLayers[i]) = {"warningCount"}})

\* a result with a flagged record whose contrast passes, next to a record
\* without issue
C28_Witness ==
    /\ Returned
    /\ \E i, j \in 1..Len(Res.textLayers) :
          /\ Res.textLayers[i].issueType = "no-background"
          /\ Res.textLayers[i].hasAccessibilityIssue
          /\ Res.textLayers[i].wcagLevel # "FAIL"
          /\ Res.textLayers[j].issueType = "none"
          /\ ~Res.textLayers[j].hasAccessibilityIssue

(***************************************************************************)
(* C29 -- whenever focusOnNode returns success = FALSE (not found, not     *)
(* focusable, no bounds, or a provider call raising at any step, the       *)
(* viewport command after a page switch included) the current page and the *)
(* current selection are those of before the call.                         *)
(***************************************************************************)
\* the step is a call of focusOnNode that returned a failure
FocusFailed ==
    /\ focusLog' # <<>>
    /\ focusLog'[1].result # <<>>
    /\ ~focusLog'[1].result[1].success

C29_Step == FocusFailed => currentPage' = currentPage /\ selection' = selection

C29_FailureLeavesState == [][C29_Step]_vars

\* the call failed after figma.currentPage was assigned
FailedAfterSwitch ==
    /\ FocusFailed
    /\ focusLog'[1].payload.nodeId \in DOMAIN doc.nodes
    /\ node(focusLog'[1].payload.nodeId).type \notin {"PAGE", "DOCUMENT"}
    /\ node(focusLog'[1].payload.nodeId).box # <<>>
    /\ SwitchesPage(ContainingPage(focusLog'[1].payload.nodeId))
    /\ focusLog'[1].raising \in {{"scrollAndZoomIntoView"}, {"selection"}}

\* what the code does: a failure before the page switch leaves page and
\* selection alone; a failure after it leaves the node's page current, with
\* the selection that page had
C29_FailureAfterSwitch ==
    [][/\ (FocusFailed /\ ~FailedAfterSwitch) =>
              currentPage' = currentPage /\ selection' = selection
       /\ FailedAfterSwitch =>
              /\ currentPage' = ContainingPage(focusLog'[1].payload.nodeId)
              /\ currentPage' # currentPage
              /\ selection' = parked[currentPage']
              /\ parked'[currentPage] = selection]_vars

\* a failed focus on a node of page Q, the viewport command raising, with
\* page Q current
C29_OnOtherPage ==
    /\ focusLog # <<>>
    /\ focusLog[1].payload.nodeId = "Q1"
    /\ focusLog[1].raising = {"scrollAndZoomIntoView"}
    /\ focusLog[1].result = <<Failure(Unexpected)>>
    /\ currentPage = "Q"
    /\ parked["P"] # <<>>

(***************************************************************************)
(* C30 -- in every ScanResult a record has issueType none only if its font *)
(* is not missing, a background was resolved and its wcagLevel is not      *)
(* FAIL; a record with issueType contrast-fail has wcagLevel FAIL; a       *)
(* record with wcagLevel FAIL has issueType contrast-fail or missing-font; *)
(* so errorCount is the number of FAIL records whose font is not missing.  *)
(***************************************************************************)
C30_IssueAndLevel ==
    Returned =>
        LET n == Len(Res.textLayers)
            rec(i) == Res.textLayers[i]
        IN  /\ \A i \in 1..n :
                  /\ rec(i).issueType = "none" =>
                        /\ ~rec(i).fontInfo.isMissing
                        /\ rec(i).backgroundColor # <<>>
                        /\ rec(i).wcagLevel # "FAIL"
                  /\ rec(i).issueType = "contrast-fail" => rec(i).wcagLevel = "FAIL"
                  /\ rec(i).wcagLevel = "FAIL" =>
                        rec(i).issueType \in {"contrast-fail", "missing-font"}
            /\ Res.errorCount =
                  Cardinality({i \in 1..n : /\ rec(i).wcagLevel = "FAIL"
                                            /\ ~rec(i).fontInfo.isMissing})

\* a result with more FAIL records than errors: one FAIL record has a
\* missing font, another is a contrast failure, and a third record is clean
C30_Witness ==
    /\ Returned
    /\ Res.errorCount >= 1
    /\ \E i, j, k \in 1..Len(Res.textLayers) :
          /\ Res.textLayers[i].wcagLevel = "FAIL"
          /\ Res.textLayers[i].issueType = "missing-font"
          /\ Res.textLayers[j].wcagLevel = "FAIL"
          /\ Res.textLayers[j].issueType = "contrast-fail"
          /\ Res.textLayers[k].issueType = "none"

====
